---------------------------- MODULE Spec2Model ----------------------------
(***************************************************************************)
(* State-machine model of the Z180 core in src/devices/cpu/z180/z180.cpp:  *)
(* the internal I/O register bank, the two programmable reload timers, the *)
(* two DMA channels, interrupt arbitration and the execute_run driver.     *)
(*                                                                         *)
(* The device object is the record held by the variable z; every handler   *)
(* of the source is an operator from a device state to a device state (and *)
(* a cycle count where the handler returns one), so that a driver step can *)
(* compose handlers in the order the source calls them.                    *)
(***************************************************************************)
EXTENDS Integers, Sequences, FiniteSets, TLC

VARIABLES
    z,          \* the z180_device object (record of its fields) and the program memory
    pc,         \* position of execute_run ("idle" = not running)
    m_icount,   \* remaining cycle budget of the current execute_run call
    last,       \* observation of the last handler call: its inputs, its result
    hist        \* history of the current experiment (ticks since enable, transfers since arming, ...)

vars == <<z, pc, m_icount, last, hist>>

----------------------------------------------------------------------------
(* Bounds of the model *)

MaxReload  == 2     \* largest timer reload value programmed
MaxTicks   == 4     \* timer ticks followed after a timer was enabled
MaxCount   == 3     \* largest DMA byte count programmed
MaxXfers   == 4     \* channel-1 transfers followed after arming
MaxBudget  == 13    \* largest cycle budget handed to execute_run
MaxNmi     == 1     \* NMIs serviced in a behaviour of SpecRun
MaxWrites  == 3     \* register writes in a sequence of SpecMask
MemSize    == 8     \* program-memory cells whose content is tracked

----------------------------------------------------------------------------
(* Bit arithmetic on unsigned integers *)

\* a & b, bit by bit. (Here and in the other recursive operators the operands
\* of a recursive call are bound through one-element sets: each is then
\* computed once, also where an expression is evaluated inside ENABLED.)
RECURSIVE BitAnd(_, _)
BitAnd(a, b) ==
    IF a = 0 \/ b = 0 THEN 0
    ELSE CHOOSE r \in { (x % 2) * (y % 2) + 2 * BitAnd(x \div 2, y \div 2) :
                            x \in {a}, y \in {b} } : TRUE

BitOr(a, b)    == a + b - BitAnd(a, b)
BitClr(a, m)   == a - BitAnd(a, m)             \* a & ~m
Not8(m)        == 255 - m                      \* (uint8_t)~m
Test(a, bit)   == (a \div bit) % 2 = 1         \* a & bit, for a one-bit mask
Lo(w)          == w % 256
Hi(w)          == (w \div 256) % 256
SetLo(w, d)    == (w \div 256) * 256 + d
SetHi(w, d)    == (w \div 65536) * 65536 + d * 256 + (w % 256)
SetH2(w, d)    == (w \div 16777216) * 16777216 + d * 65536 + (w % 65536)
H2(w)          == (w \div 65536) % 256
U16(x)         == x % 65536
\* a 32-bit value (offs_t, PAIR.d) is held as its two's-complement signed
\* reading: 0xFFFFFFFF, the value 0 - 1 wraps to, is -1; the byte selectors
\* above read the same bytes from it (\div and % round down).  The other
\* wrap, at 2^31, is 2^31 - 2^20 transfers away from every register value
U32(x)         == x

----------------------------------------------------------------------------
(* Program constants *)

Z180_INT_TRAP  == 0
Z180_INT_NMI   == 1
Z180_INT_IRQ0  == 2
Z180_INT_IRQ1  == 3
Z180_INT_IRQ2  == 4
Z180_INT_PRT0  == 5
Z180_INT_PRT1  == 6
Z180_INT_DMA0  == 7
Z180_INT_DMA1  == 8
Z180_INT_CSIO  == 9
Z180_INT_ASCI0 == 10
Z180_INT_ASCI1 == 11
Z180_INT_MAX   == Z180_INT_ASCI1

Z180_DREQ0     == 2048       \* 0x00000800
Z180_DREQ1     == 4096       \* 0x00001000
Z180_TEND0     == 131072     \* 0x00020000
Z180_TEND1     == 262144     \* 0x00040000

Z180_CNTR_MASK   == 247      \* 0xf7
Z180_TCR_TIF1    == 128
Z180_TCR_TIF0    == 64
Z180_TCR_TIE1    == 32
Z180_TCR_TIE0    == 16
Z180_TCR_TDE1    == 2
Z180_TCR_TDE0    == 1
Z180_ASEXT0_MASK == 127
Z180_ASEXT1_MASK == 31
Z180_CMR_MASK    == 192
Z180_DSTAT_DE1   == 128
Z180_DSTAT_DE0   == 64
Z180_DSTAT_DWE1  == 32
Z180_DSTAT_DWE0  == 16
Z180_DSTAT_DIE1  == 8
Z180_DSTAT_DIE0  == 4
Z180_DSTAT_DME   == 1
Z180_DSTAT_MASK  == 253
Z180_DMODE_MMOD  == 2
Z180_DMODE_MASK  == 62
Z180_DCNTL_DMS0  == 4
Z180_DCNTL_DIM1  == 2
Z180_IL_MASK     == 224
Z180_ITC_UFO     == 64
Z180_ITC_ITE2    == 4
Z180_ITC_ITE1    == 2
Z180_ITC_ITE0    == 1
Z180_ITC_MASK    == 199
Z180_RCR_MASK    == 195
Z180_OMCR_MASK   == 224
Z180_IOCR_MASK   == 224

\* the bits of the flag register F
CF == 1
NF == 2
PF == 4
VF == PF
XF == 8
HF == 16
YF == 32
ZF == 64
SF == 128

CLEAR_LINE  == 0
ASSERT_LINE == 1

Byte == 0 .. 255

\* the value a tracked program-memory cell holds before anything is written
MemFill(a) == 16 + a

----------------------------------------------------------------------------
(* The device object *)

\* z180_device::z180_device: the fields the constructor sets; the other
\* fields are set by device_reset before they are read
Construct ==
    [ PC |-> 0, SP |-> 0, IX |-> 0, IY |-> 0, F |-> 0,
      HALT |-> 0, IFF1 |-> 0, IFF2 |-> 0, after_EI |-> 0,
      m_int_pending |-> [i \in 0 .. Z180_INT_MAX |-> 0],
      m_irq_state |-> [i \in 0 .. 2 |-> CLEAR_LINE],
      m_nmi_state |-> CLEAR_LINE, m_nmi_pending |-> 0,
      m_iol |-> 0, m_timer_cnt |-> 0,
      m_asci_cntla |-> [i \in 0 .. 1 |-> 0],
      m_asci_cntlb |-> [i \in 0 .. 1 |-> 0],
      m_asci_stat |-> [i \in 0 .. 1 |-> 0],
      m_asci_tdr |-> [i \in 0 .. 1 |-> 0],
      m_asci_rdr |-> [i \in 0 .. 1 |-> 0],
      m_asci_ext |-> [i \in 0 .. 1 |-> 0],
      m_asci_tc |-> [i \in 0 .. 1 |-> 0],
      m_csio_cntr |-> 0, m_csio_trdr |-> 0,
      m_tmdr |-> [i \in 0 .. 1 |-> 0],
      m_tmdr_value |-> [i \in 0 .. 1 |-> 0],
      m_tmdrh |-> [i \in 0 .. 1 |-> 0],
      m_tmdr_latch |-> 0,
      m_read_tcr_tmdr |-> [i \in 0 .. 1 |-> 0],
      m_rldr |-> [i \in 0 .. 1 |-> 65535],
      m_tcr |-> 0, m_cmr |-> 0, m_ccr |-> 0,
      m_dma_sar0 |-> 0, m_dma_dar0 |-> 0, m_dma_mar1 |-> 0, m_dma_iar1 |-> 0,
      m_dma_bcr |-> [i \in 0 .. 1 |-> 0],
      m_dstat |-> 0, m_dmode |-> 0, m_dcntl |-> 0, m_il |-> 0, m_itc |-> 0,
      m_rcr |-> 0, m_mmu_cbr |-> 0, m_mmu_bbr |-> 0, m_mmu_cbar |-> 0,
      m_omcr |-> 0, m_iocr |-> 0,
      m_mmu |-> [page \in 0 .. 15 |-> 0],
      R |-> 0, R2 |-> 0, m_rtemp |-> 0, m_ioltemp |-> 0,
      mem |-> [a \in 0 .. MemSize - 1 |-> MemFill(a)],
      prog |-> << >> ]

\* an MMU recomputation that leaves the page table as it was
z180_mmu_stale(s) == s

\* z180_mmu (z180ops.h): the physical base of each of the 16 logical pages of
\* 4 KB; pages below the split point, the high nibble of CBAR, lie in the
\* bank area, offset by BBR, the pages from it on in the common area, offset
\* by CBR; physical addresses have 20 bits
z180_mmu(s) ==
    [s EXCEPT !.m_mmu = [page \in 0 .. 15 |->
        (page * 4096 + (IF page >= s.m_mmu_cbar \div 16 THEN s.m_mmu_cbr
                                                         ELSE s.m_mmu_bbr) * 4096)
            % 1048576]]

\* MMU_REMAP_ADDR (z180ops.h): the page's physical base plus the offset in
\* the page
MMU_REMAP_ADDR(s, addr) == s.m_mmu[(addr \div 4096) % 16] + (addr % 4096)

\* z180_device::memory_translate
memory_translate(s, spacenum, address) ==
    IF spacenum = "AS_PROGRAM" THEN MMU_REMAP_ADDR(s, address) ELSE address

\* a reset that leaves the index registers and the flags as they were
device_reset_keeps_index(s) ==
    [ s EXCEPT !.PC = 0, !.SP = 0, !.HALT = 0, !.IFF1 = 0, !.IFF2 = 0,
               !.m_int_pending = [i \in 0 .. Z180_INT_MAX |-> 0],
               !.m_tcr = 0, !.m_dstat = Z180_DSTAT_DWE1 + Z180_DSTAT_DWE0,
               !.m_mmu_cbr = 0, !.m_mmu_bbr = 0, !.m_mmu_cbar = 240 ]

\* z180_device::device_reset
device_reset(s) ==
  z180_mmu(
    [ s EXCEPT
      !.PC = 0, !.SP = 0, !.IX = 65535, !.IY = 65535, !.F = ZF,
      !.R = 0, !.R2 = 0,
      !.HALT = 0, !.IFF1 = 0, !.IFF2 = 0, !.after_EI = 0,
      !.m_tmdr_latch = 0,
      !.m_read_tcr_tmdr = [i \in 0 .. 1 |-> 0],
      !.m_iol = 0,
      !.m_tmdrh = [i \in 0 .. 1 |-> 0],
      !.m_tmdr_value = [i \in 0 .. 1 |-> 65535],
      !.m_nmi_state = CLEAR_LINE, !.m_nmi_pending = 0,
      !.m_irq_state = [i \in 0 .. 2 |-> CLEAR_LINE],
      !.m_int_pending = [i \in 0 .. Z180_INT_MAX |-> 0],
      !.m_timer_cnt = 0,
      !.m_asci_cntla = [i \in 0 .. 1 |->
            IF i = 0 THEN BitOr(BitAnd(s.m_asci_cntla[0], 8), 16)
                     ELSE BitOr(BitAnd(s.m_asci_cntla[1], 8), 16)],
      !.m_asci_cntlb = [i \in 0 .. 1 |->
            IF i = 0 THEN BitOr(BitAnd(s.m_asci_cntlb[0], 160), 7)
                     ELSE BitOr(BitAnd(s.m_asci_cntlb[1], 128), 7)],
      !.m_asci_stat = [i \in 0 .. 1 |->
            IF i = 0 THEN BitAnd(s.m_asci_stat[0], 6) ELSE 2],
      !.m_csio_cntr = 7,
      !.m_tcr = 0,
      !.m_asci_ext = [i \in 0 .. 1 |-> 0],
      !.m_cmr = 0, !.m_ccr = 0,
      !.m_dma_iar1 = SetH2(s.m_dma_iar1, 0),
      !.m_dstat = Z180_DSTAT_DWE1 + Z180_DSTAT_DWE0,
      !.m_dmode = 0,
      !.m_dcntl = 240,
      !.m_il = 0,
      !.m_itc = Z180_ITC_ITE0,
      !.m_rcr = 192,
      !.m_mmu_cbr = 0, !.m_mmu_bbr = 0, !.m_mmu_cbar = 240,
      !.m_omcr = 224,
      !.m_iocr = 0 ])

ResetState == device_reset(Construct)

----------------------------------------------------------------------------
(* Timers *)

\* a tick that takes a running counter down by two
TimerTickTwice(s, n) ==
    LET tde == IF n = 0 THEN Z180_TCR_TDE0 ELSE Z180_TCR_TDE1
        tif == IF n = 0 THEN Z180_TCR_TIF0 ELSE Z180_TCR_TIF1
    IN  IF Test(s.m_tcr, tde)
        THEN IF s.m_tmdr_value[n] = 0
             THEN [s EXCEPT !.m_tmdr_value[n] = s.m_rldr[n],
                            !.m_tcr = BitOr(s.m_tcr, tif)]
             ELSE [s EXCEPT !.m_tmdr_value[n] = (s.m_tmdr_value[n] - 2) % 65536]
        ELSE s

\* one timer of clock_timers: the counter and flag of timer n after a tick
TimerTick(s, n) ==
    LET tde == IF n = 0 THEN Z180_TCR_TDE0 ELSE Z180_TCR_TDE1
        tif == IF n = 0 THEN Z180_TCR_TIF0 ELSE Z180_TCR_TIF1
    IN  IF Test(s.m_tcr, tde)
        THEN IF s.m_tmdr_value[n] = 0
             THEN [s EXCEPT !.m_tmdr_value[n] = s.m_rldr[n],
                            !.m_tcr = BitOr(s.m_tcr, tif)]
             ELSE [s EXCEPT !.m_tmdr_value[n] = s.m_tmdr_value[n] - 1]
        ELSE s

\* a queuing that looks at the timer's own bits only
TimerQueueUnmasked(s, n) ==
    LET tie == IF n = 0 THEN Z180_TCR_TIE0 ELSE Z180_TCR_TIE1
        tif == IF n = 0 THEN Z180_TCR_TIF0 ELSE Z180_TCR_TIF1
        irq == IF n = 0 THEN Z180_INT_PRT0 ELSE Z180_INT_PRT1
    IN  IF Test(s.m_tcr, tie) /\ Test(s.m_tcr, tif)
        THEN [s EXCEPT !.m_int_pending[irq] = 1]
        ELSE s

\* the interrupt queuing at the end of a tick, for timer n
TimerQueue(s, n) ==
    LET tie == IF n = 0 THEN Z180_TCR_TIE0 ELSE Z180_TCR_TIE1
        tif == IF n = 0 THEN Z180_TCR_TIF0 ELSE Z180_TCR_TIF1
        irq == IF n = 0 THEN Z180_INT_PRT0 ELSE Z180_INT_PRT1
    IN  IF Test(s.m_tcr, tie) /\ Test(s.m_tcr, tif) /\ s.IFF1 = 1 /\ s.after_EI = 0
        THEN [s EXCEPT !.m_int_pending[irq] = 1]
        ELSE s

\* a clock_timers that counts every T-state twice
clock_timers_double(s) ==
    IF s.m_timer_cnt + 2 >= 20
    THEN TimerQueue(TimerQueue(TimerTick(TimerTick(
             [s EXCEPT !.m_timer_cnt = 0], 0), 1), 0), 1)
    ELSE [s EXCEPT !.m_timer_cnt = s.m_timer_cnt + 2]

\* z180_device::clock_timers
clock_timers(s) ==
    IF s.m_timer_cnt + 1 >= 20
    THEN TimerQueue(TimerQueue(TimerTick(TimerTick(
             [s EXCEPT !.m_timer_cnt = 0], 0), 1), 0), 1)
    ELSE [s EXCEPT !.m_timer_cnt = s.m_timer_cnt + 1]

\* z180_device::handle_io_timers
RECURSIVE handle_io_timers(_, _)
handle_io_timers(s, cycles) ==
    IF cycles > 0
    THEN CHOOSE r \in { handle_io_timers(t, c) :
                            t \in {clock_timers(s)}, c \in {cycles - 1} } : TRUE
    ELSE s

----------------------------------------------------------------------------
(* Interrupts *)

\* cycles an interrupt acknowledge sequence may cost
AckCycles == {2}

\* take_interrupt (z180op.hxx): leaves halt, vectors; whether the enable
\* flip-flops are cleared is left open (iff is the value IFF1/IFF2 take)
take_interrupt(s, irq, iff) ==
    [s EXCEPT !.HALT = 0, !.IFF1 = iff, !.IFF2 = iff,
              !.PC = 56 + irq]

\* a check_interrupts that does not look at the external lines
PromoteIrqNever(s) == s

\* a promotion that does not look at the enable bits of ITC
PromoteIrqUnmasked(s) ==
    IF s.IFF1 = 1 /\ s.after_EI = 0
    THEN [s EXCEPT !.m_int_pending =
            [i \in 0 .. Z180_INT_MAX |->
                IF /\ i \in {Z180_INT_IRQ0, Z180_INT_IRQ1, Z180_INT_IRQ2}
                   /\ s.m_irq_state[i - Z180_INT_IRQ0] # CLEAR_LINE
                THEN 1 ELSE s.m_int_pending[i]]]
    ELSE s

\* the promotion of the external lines at the head of check_interrupts
PromoteIrq(s) ==
    IF s.IFF1 = 1 /\ s.after_EI = 0
    THEN [s EXCEPT !.m_int_pending =
            [i \in 0 .. Z180_INT_MAX |->
                IF /\ i \in {Z180_INT_IRQ0, Z180_INT_IRQ1, Z180_INT_IRQ2}
                   /\ s.m_irq_state[i - Z180_INT_IRQ0] # CLEAR_LINE
                   /\ Test(s.m_itc, IF i = Z180_INT_IRQ0 THEN Z180_ITC_ITE0
                                    ELSE IF i = Z180_INT_IRQ1 THEN Z180_ITC_ITE1
                                    ELSE Z180_ITC_ITE2)
                THEN 1 ELSE s.m_int_pending[i]]]
    ELSE s

Pending(s) == {i \in 0 .. Z180_INT_MAX : s.m_int_pending[i] # 0}

Min(S) == CHOOSE x \in S : \A y \in S : x <= y

Max(S) == CHOOSE x \in S : \A y \in S : x >= y

\* a for loop that scans the pending flags from the highest index down
ServicedIrqBackwards(s) == Max(Pending(s))

\* the source the for loop of check_interrupts stops at
ServicedIrq(s) == Min(Pending(s))

\* z180_device::check_interrupts; ack and iff are what take_interrupt
\* returns and does to the flip-flops
check_interrupts(s, ack, iff) ==
    LET p == PromoteIrq(s)
    IN  IF Pending(p) = {}
        THEN [st |-> p, cycles |-> 0, irq |-> -1]
        ELSE LET i == ServicedIrq(p)
                 t == take_interrupt(p, i, iff)
             IN  [st |-> [t EXCEPT !.m_int_pending[i] = 0],
                  cycles |-> ack, irq |-> i]

\* an execute_set_input that marks an NMI pending whenever the line is driven
\* to a state other than CLEAR
execute_set_input_level(s, irqline, state) ==
    CASE irqline = "NMI" ->
            [s EXCEPT !.m_nmi_pending = IF state # CLEAR_LINE THEN 1 ELSE s.m_nmi_pending,
                      !.m_nmi_state = state]
      [] irqline = "IRQ0" -> [s EXCEPT !.m_irq_state[0] = state]
      [] OTHER -> s

\* z180_device::execute_set_input, without a daisy chain; irqline is one of
\* "NMI", "IRQ0", "IRQ1", "IRQ2", "DREQ0", "DREQ1"
execute_set_input(s, irqline, state) ==
    CASE irqline = "NMI" ->
            [s EXCEPT !.m_nmi_pending =
                          IF s.m_nmi_state = CLEAR_LINE /\ state # CLEAR_LINE
                          THEN 1 ELSE s.m_nmi_pending,
                      !.m_nmi_state = state]
      [] irqline = "IRQ0" -> [s EXCEPT !.m_irq_state[0] = state]
      [] irqline = "IRQ1" -> [s EXCEPT !.m_irq_state[1] = state]
      [] irqline = "IRQ2" -> [s EXCEPT !.m_irq_state[2] = state]
      [] irqline = "DREQ0" ->
            [s EXCEPT !.m_iol = BitClr(s.m_iol, Z180_DREQ0)
                                  + (IF state = ASSERT_LINE THEN Z180_DREQ0 ELSE 0)]
      [] irqline = "DREQ1" ->
            [s EXCEPT !.m_iol = BitClr(s.m_iol, Z180_DREQ1)
                                  + (IF state = ASSERT_LINE THEN Z180_DREQ1 ELSE 0)]

\* EI (z180op.hxx): both flip-flops set, interrupts held off for one instruction
op_ei(s) == [s EXCEPT !.IFF1 = 1, !.IFF2 = 1, !.after_EI = 1]

\* DI (z180op.hxx)
op_di(s) == [s EXCEPT !.IFF1 = 0, !.IFF2 = 0]

----------------------------------------------------------------------------
(* Program memory and wait states *)

\* m_program->read_byte: the program space is 20 bits wide (m_program_config);
\* cells outside the tracked window read as 255
read_byte(s, addr) ==
    LET a == addr % 1048576
    IN  IF a < MemSize THEN s.mem[a] ELSE 255

\* m_program->write_byte: writes outside the tracked window are not recorded
write_byte(s, addr, data) ==
    LET a == addr % 1048576
    IN  IF a < MemSize THEN [s EXCEPT !.mem[a] = data] ELSE s

\* memory_wait_states (z180.h): the MWI field of DCNTL
memory_wait_states(s) == (s.m_dcntl \div 64) % 4

\* extra cycles an access of the external I/O space may add (m_extra_cycles)
IoWaits == {0, 1}

----------------------------------------------------------------------------
(* DMA channel 0 *)

\* case labels whose reserved patterns move memory to memory
Dma0KindAllMove(mode) ==
    CASE mode \in {12, 28} -> "im"
      [] mode \in {48, 52} -> "mi"
      [] OTHER             -> "mm"

\* the case labels of the transfer switch, by what they move: memory to
\* memory, I/O to memory, memory to I/O, or nothing (reserved)
Dma0Kind(mode) ==
    CASE mode \in {0, 4, 8, 16, 20, 24, 32, 36} -> "mm"
      [] mode \in {12, 28}                       -> "im"
      [] mode \in {48, 52}                       -> "mi"
      [] OTHER                                   -> "rsv"

\* what a transfer of the case adds to the source address
Dma0Src(mode) ==
    CASE mode \in {0, 16, 32, 48} -> 1
      [] mode \in {4, 20, 36, 52}  -> -1
      [] OTHER                     -> 0

\* what a transfer of the case adds to the destination address
Dma0Dst(mode) ==
    CASE mode \in {0, 4, 8, 12}    -> 1
      [] mode \in {16, 20, 24, 28} -> -1
      [] OTHER                     -> 0

Dma0Mode(s) == BitAnd(s.m_dmode, 60)

\* a switch whose I/O modes transfer whether or not DREQ0 is asserted and
\* carry on after an edge-sensed unit
Dma0UnitUngated(L, io) ==
    LET s    == L.st
        kind == Dma0Kind(Dma0Mode(s))
    IN  IF kind = "rsv"
        THEN [L EXCEPT !.extra = 0]
        ELSE [L EXCEPT
                 !.st = IF kind = "mi" THEN s
                        ELSE write_byte(s, L.dar0,
                                 IF kind = "im" THEN io.byte ELSE read_byte(s, L.sar0)),
                 !.sar0 = U32(L.sar0 + Dma0Src(Dma0Mode(s))),
                 !.dar0 = U32(L.dar0 + Dma0Dst(Dma0Mode(s))),
                 !.cycles = L.cycles + memory_wait_states(s) * (IF kind = "mm" THEN 2 ELSE 1),
                 !.bcr0 = L.bcr0 - 1,
                 !.xfers = L.xfers + 1,
                 !.tendw = IF Test(s.m_iol, Z180_TEND0) THEN 1 ELSE 0,
                 !.extra = IF kind = "mm" THEN 0 ELSE io.wait]

\* the switch of the transfer loop: one unit in the selected mode
\* (L: the loop's locals and the device state; io: what the I/O space does)
Dma0Unit(L, io) ==
    LET s    == L.st
        mode == Dma0Mode(s)
        kind == Dma0Kind(mode)
        src  == Dma0Src(mode)
        dst  == Dma0Dst(mode)
        ws   == memory_wait_states(s)
    IN  IF kind = "rsv"
        THEN [L EXCEPT !.extra = 0]
        ELSE IF kind = "im"
        THEN IF Test(s.m_iol, Z180_DREQ0)
             THEN LET w == write_byte(s, L.dar0, io.byte)
                      e == Test(s.m_dcntl, Z180_DCNTL_DMS0)
                  IN  [L EXCEPT
                         !.st = IF e THEN [w EXCEPT !.m_iol = w.m_iol - Z180_DREQ0] ELSE w,
                         !.dar0 = U32(L.dar0 + dst),
                         !.cycles = L.cycles + ws,
                         !.bcr0 = L.bcr0 - 1,
                         !.count = IF e THEN 0 ELSE L.count,
                         !.xfers = L.xfers + 1,
                         !.tendw = IF Test(s.m_iol, Z180_TEND0) THEN 1 ELSE 0,
                         !.extra = io.wait]
             ELSE [L EXCEPT !.extra = 0]
        ELSE IF kind = "mi"
        THEN IF Test(s.m_iol, Z180_DREQ0)
             THEN LET e == Test(s.m_dcntl, Z180_DCNTL_DMS0)
                  IN  [L EXCEPT
                         !.st = IF e THEN [s EXCEPT !.m_iol = s.m_iol - Z180_DREQ0] ELSE s,
                         !.sar0 = U32(L.sar0 + src),
                         !.cycles = L.cycles + ws,
                         !.bcr0 = L.bcr0 - 1,
                         !.count = IF e THEN 0 ELSE L.count,
                         !.xfers = L.xfers + 1,
                         !.tendw = IF Test(s.m_iol, Z180_TEND0) THEN 1 ELSE 0,
                         !.extra = io.wait]
             ELSE [L EXCEPT !.extra = 0]
        ELSE [L EXCEPT
                 !.st = write_byte(s, L.dar0, read_byte(s, L.sar0)),
                 !.sar0 = U32(L.sar0 + src),
                 !.dar0 = U32(L.dar0 + dst),
                 !.cycles = L.cycles + ws * 2,
                 !.bcr0 = L.bcr0 - 1,
                 !.xfers = L.xfers + 1,
                 !.tendw = IF Test(s.m_iol, Z180_TEND0) THEN 1 ELSE 0,
                 !.extra = 0]

\* "last transfer happening now?": TEND0 is raised for the unit that starts at count 1
Dma0Tend(L) ==
    IF L.bcr0 = 1 /\ ~Test(L.st.m_iol, Z180_TEND0)
    THEN [L EXCEPT !.st.m_iol = L.st.m_iol + Z180_TEND0]
    ELSE L

\* a transfer loop that runs to the end of its count whatever the budget
RECURSIVE Dma0LoopUnbudgeted(_, _, _)
Dma0LoopUnbudgeted(L, max_cycles, io) ==
    IF L.count > 0
    THEN CHOOSE r \in
           { Dma0LoopUnbudgeted(n, max_cycles, io) :
               n \in { [u EXCEPT !.count = u.count - 1, !.cycles = u.cycles + 6 + u.extra] :
                         u \in { Dma0Unit(t, io) : t \in {Dma0Tend(L)} } } } : TRUE
    ELSE L

\* the while loop of z180_dma0
RECURSIVE Dma0Loop(_, _, _)
Dma0Loop(L, max_cycles, io) ==
    IF L.count > 0
    THEN CHOOSE r \in
           { IF n.cycles > max_cycles THEN n ELSE Dma0Loop(n, max_cycles, io) :
               n \in { [u EXCEPT !.count = u.count - 1, !.cycles = u.cycles + 6 + u.extra] :
                         u \in { Dma0Unit(t, io) : t \in {Dma0Tend(L)} } } } : TRUE
    ELSE L

\* a terminal count that releases TEND0 and leaves the channel enabled
Dma0TerminalStaysOn(s, bcr0) ==
    IF bcr0 = 0
    THEN [s EXCEPT !.m_iol = IF Test(s.m_iol, Z180_TEND0)
                             THEN s.m_iol - Z180_TEND0 ELSE s.m_iol]
    ELSE s

\* "DMA terminal count?" at the end of z180_dma0
Dma0Terminal(s, bcr0) ==
    IF bcr0 = 0
    THEN LET a == [s EXCEPT
                     !.m_iol = IF Test(s.m_iol, Z180_TEND0) THEN s.m_iol - Z180_TEND0 ELSE s.m_iol,
                     !.m_dstat = IF Test(s.m_dstat, Z180_DSTAT_DE0)
                                 THEN s.m_dstat - Z180_DSTAT_DE0 ELSE s.m_dstat]
         IN  IF Test(a.m_dstat, Z180_DSTAT_DIE0) /\ a.IFF1 # 0
             THEN [a EXCEPT !.m_int_pending[Z180_INT_DMA0] = 1]
             ELSE a
    ELSE s

\* a z180_dma0 that takes the count register as it is, 0 included
z180_dma0_plain_count(s, max_cycles, io) ==
    LET b0 == s.m_dma_bcr[0]
        L0 == [st |-> s, sar0 |-> s.m_dma_sar0, dar0 |-> s.m_dma_dar0, bcr0 |-> b0,
               count |-> IF Test(s.m_dmode, Z180_DMODE_MMOD) THEN b0 ELSE 1,
               cycles |-> 0, xfers |-> 0, tendw |-> 0, extra |-> 0]
    IN  IF ~Test(s.m_dstat, Z180_DSTAT_DE0)
        THEN [st |-> s, cycles |-> 0, xfers |-> 0, tendw |-> 0]
        ELSE LET L == Dma0Loop(L0, max_cycles, io)
                 w == [L.st EXCEPT !.m_dma_sar0 = L.sar0, !.m_dma_dar0 = L.dar0,
                                   !.m_dma_bcr[0] = U16(L.bcr0)]
             IN  [st |-> Dma0Terminal(w, L.bcr0), cycles |-> L.cycles,
                  xfers |-> L.xfers, tendw |-> L.tendw]

\* z180_device::z180_dma0
z180_dma0(s, max_cycles, io) ==
    LET b0 == IF s.m_dma_bcr[0] = 0 THEN 65536 ELSE s.m_dma_bcr[0]
        L0 == [st |-> s, sar0 |-> s.m_dma_sar0, dar0 |-> s.m_dma_dar0, bcr0 |-> b0,
               count |-> IF Test(s.m_dmode, Z180_DMODE_MMOD) THEN b0 ELSE 1,
               cycles |-> 0, xfers |-> 0, tendw |-> 0, extra |-> 0]
    IN  IF ~Test(s.m_dstat, Z180_DSTAT_DE0)
        THEN [st |-> s, cycles |-> 0, xfers |-> 0, tendw |-> 0]
        ELSE LET L == Dma0Loop(L0, max_cycles, io)
                 w == [L.st EXCEPT !.m_dma_sar0 = L.sar0, !.m_dma_dar0 = L.dar0,
                                   !.m_dma_bcr[0] = U16(L.bcr0)]
             IN  [st |-> Dma0Terminal(w, L.bcr0), cycles |-> L.cycles,
                  xfers |-> L.xfers, tendw |-> L.tendw]

----------------------------------------------------------------------------
(* DMA channel 1 *)

\* a switch that moves MAR1 upwards whatever DIM0 says
Dma1UnitUp(s, mar1, iar1, io) ==
    IF s.m_dcntl % 4 < 2
    THEN [st |-> s, mar1 |-> U32(mar1 + 1), port |-> iar1, out |-> read_byte(s, mar1)]
    ELSE [st |-> write_byte(s, mar1, io.byte), mar1 |-> U32(mar1 + 1),
          port |-> iar1, out |-> -1]

\* the switch of z180_dma1: the transfer selected by the DIM field of DCNTL
\* (port: the I/O address accessed; out: the byte written there, -1 for a read)
Dma1Unit(s, mar1, iar1, io) ==
    LET dim == s.m_dcntl % 4
    IN  CASE dim = 0 -> [st |-> s, mar1 |-> U32(mar1 + 1),
                         port |-> iar1, out |-> read_byte(s, mar1)]
          [] dim = 1 -> [st |-> s, mar1 |-> U32(mar1 - 1),
                         port |-> iar1, out |-> read_byte(s, mar1)]
          [] dim = 2 -> [st |-> write_byte(s, mar1, io.byte), mar1 |-> U32(mar1 + 1),
                         port |-> iar1, out |-> -1]
          [] dim = 3 -> [st |-> write_byte(s, mar1, io.byte), mar1 |-> U32(mar1 - 1),
                         port |-> iar1, out |-> -1]

\* the count z180_dma1 stores back after a transfer
Dma1Count(bcr1) == bcr1

\* "DMA terminal count?" at the end of z180_dma1
Dma1Terminal(s, bcr1) ==
    IF bcr1 = 0
    THEN LET a == [s EXCEPT
                     !.m_iol = IF Test(s.m_iol, Z180_TEND1) THEN s.m_iol - Z180_TEND1 ELSE s.m_iol,
                     !.m_dstat = IF Test(s.m_dstat, Z180_DSTAT_DE1)
                                 THEN s.m_dstat - Z180_DSTAT_DE1 ELSE s.m_dstat]
         IN  IF Test(a.m_dstat, Z180_DSTAT_DIE1) /\ a.IFF1 # 0
             THEN [a EXCEPT !.m_int_pending[Z180_INT_DMA1] = 1]
             ELSE a
    ELSE s

\* z180_device::z180_dma1
z180_dma1(s, io) ==
    LET b1 == IF s.m_dma_bcr[1] = 0 THEN 65536 ELSE s.m_dma_bcr[1]
    IN  IF ~Test(s.m_iol, Z180_DREQ1) \/ ~Test(s.m_dstat, Z180_DSTAT_DE1)
        THEN [st |-> s, cycles |-> 0, xfers |-> 0, port |-> -1, out |-> -1]
        ELSE LET t == IF b1 = 1 /\ ~Test(s.m_iol, Z180_TEND1)
                      THEN [s EXCEPT !.m_iol = s.m_iol + Z180_TEND1] ELSE s
                 u == Dma1Unit(t, s.m_dma_mar1, s.m_dma_iar1 % 65536, io)
                 e == IF Test(u.st.m_dcntl, Z180_DCNTL_DIM1) /\ Test(u.st.m_iol, Z180_DREQ1)
                      THEN [u.st EXCEPT !.m_iol = u.st.m_iol - Z180_DREQ1] ELSE u.st
                 c == Dma1Count(b1)
                 w == [e EXCEPT !.m_dma_mar1 = u.mar1, !.m_dma_bcr[1] = U16(c)]
             IN  [st |-> Dma1Terminal(w, c),
                  cycles |-> 6 + memory_wait_states(s) + io.wait, xfers |-> 1,
                  port |-> u.port, out |-> u.out]

----------------------------------------------------------------------------
(* Internal I/O register bank *)

\* the internal-register base selected by IOCR
IoBase(s) == BitAnd(s.m_iocr, 192)

\* a register bank that decodes the port as it comes
RemapPortNone(s, port) == port

\* "remap internal I/O registers" at the head of z180_readcontrol and z180_writecontrol
RemapPort(s, port) ==
    IF BitAnd(port, IoBase(s)) = IoBase(s) THEN port - IoBase(s) ELSE port

\* a flag register that every read clears
ReadToggleEvery(s, n) ==
    LET tif == IF n = 0 THEN Z180_TCR_TIF0 ELSE Z180_TCR_TIF1
    IN  [s EXCEPT !.m_tcr = BitClr(s.m_tcr, tif), !.m_read_tcr_tmdr[n] = 0]

\* the toggling "already read" flag shared by the TCR and TMDR reads of timer n
ReadToggle(s, n) ==
    LET tif == IF n = 0 THEN Z180_TCR_TIF0 ELSE Z180_TCR_TIF1
    IN  IF s.m_read_tcr_tmdr[n] # 0
        THEN [s EXCEPT !.m_tcr = BitClr(s.m_tcr, tif), !.m_read_tcr_tmdr[n] = 0]
        ELSE [s EXCEPT !.m_read_tcr_tmdr[n] = 1]

\* cases 0x0c and 0x14 of z180_readcontrol: the latch taken at a low-byte read
ReadLatch(s, n) ==
    LET tde == IF n = 0 THEN Z180_TCR_TDE0 ELSE Z180_TCR_TDE1
    IN  IF ~Test(s.m_tcr, tde)
        THEN [s EXCEPT !.m_tmdr_latch = BitOr(s.m_tmdr_latch, n + 1),
                       !.m_tmdrh[n] = Hi(s.m_tmdr_value[n])]
        ELSE s

\* cases 0x0d and 0x15 of z180_readcontrol: the high-byte read
ReadHigh(s, n) ==
    IF BitAnd(s.m_tmdr_latch, n + 1) # 0
    THEN [st |-> ReadToggle([s EXCEPT !.m_tmdr_latch = BitClr(s.m_tmdr_latch, n + 1)], n),
          data |-> s.m_tmdrh[n]]
    ELSE [st |-> ReadToggle(s, n), data |-> Hi(s.m_tmdr_value[n])]

\* z180_device::z180_readcontrol (io.byte: what the external I/O space returns,
\* io.frc: the free running counter)
z180_readcontrol(s, port, io) ==
    LET p == RemapPort(s, port)
        R(d) == [st |-> s, data |-> d]
    IN  CASE p = 0  -> R(s.m_asci_cntla[0])
          [] p = 1  -> R(s.m_asci_cntla[1])
          [] p = 2  -> R(s.m_asci_cntlb[0])
          [] p = 3  -> R(s.m_asci_cntlb[1])
          [] p = 4  -> R(BitOr(s.m_asci_stat[0], 2))
          [] p = 5  -> R(s.m_asci_stat[1])
          [] p = 6  -> R(s.m_asci_tdr[0])
          [] p = 7  -> R(s.m_asci_tdr[1])
          [] p = 8  -> R(s.m_asci_rdr[0])
          [] p = 9  -> R(s.m_asci_rdr[1])
          [] p = 10 -> R(BitOr(s.m_csio_cntr, Not8(Z180_CNTR_MASK)))
          [] p = 11 -> R(s.m_csio_trdr)
          [] p = 12 -> [st |-> ReadToggle(ReadLatch(s, 0), 0), data |-> Lo(s.m_tmdr_value[0])]
          [] p = 13 -> ReadHigh(s, 0)
          [] p = 14 -> R(Lo(s.m_rldr[0]))
          [] p = 15 -> R(Hi(s.m_rldr[0]))
          [] p = 16 -> [st |-> ReadToggle(ReadToggle(s, 0), 1), data |-> s.m_tcr]
          [] p = 17 -> R(255)
          [] p = 18 -> R(s.m_asci_ext[0])
          [] p = 19 -> R(s.m_asci_ext[1])
          [] p = 20 -> [st |-> ReadToggle(ReadLatch(s, 1), 1), data |-> Lo(s.m_tmdr_value[1])]
          [] p = 21 -> ReadHigh(s, 1)
          [] p = 22 -> R(Lo(s.m_rldr[1]))
          [] p = 23 -> R(Hi(s.m_rldr[1]))
          [] p = 24 -> R(io.frc)
          [] p = 25 -> R(255)
          [] p = 26 -> R(Lo(s.m_asci_tc[0]))
          [] p = 27 -> R(Hi(s.m_asci_tc[0]))
          [] p = 28 -> R(Lo(s.m_asci_tc[1]))
          [] p = 29 -> R(Hi(s.m_asci_tc[1]))
          [] p = 30 -> R(BitOr(s.m_cmr, Not8(Z180_CMR_MASK)))
          [] p = 31 -> R(s.m_ccr)
          [] p = 32 -> R(Lo(s.m_dma_sar0))
          [] p = 33 -> R(Hi(s.m_dma_sar0))
          [] p = 34 -> R(BitAnd(H2(s.m_dma_sar0), 15))
          [] p = 35 -> R(Lo(s.m_dma_dar0))
          [] p = 36 -> R(Hi(s.m_dma_dar0))
          [] p = 37 -> R(BitAnd(H2(s.m_dma_dar0), 15))
          [] p = 38 -> R(Lo(s.m_dma_bcr[0]))
          [] p = 39 -> R(Hi(s.m_dma_bcr[0]))
          [] p = 40 -> R(Lo(s.m_dma_mar1))
          [] p = 41 -> R(Hi(s.m_dma_mar1))
          [] p = 42 -> R(BitAnd(H2(s.m_dma_mar1), 15))
          [] p = 43 -> R(Lo(s.m_dma_iar1))
          [] p = 44 -> R(Hi(s.m_dma_iar1))
          [] p = 45 -> R(BitAnd(H2(s.m_dma_iar1), 207))
          [] p = 46 -> R(Lo(s.m_dma_bcr[1]))
          [] p = 47 -> R(Hi(s.m_dma_bcr[1]))
          [] p = 48 -> R(BitOr(s.m_dstat, Not8(Z180_DSTAT_MASK)))
          [] p = 49 -> R(BitOr(s.m_dmode, Not8(Z180_DMODE_MASK)))
          [] p = 50 -> R(s.m_dcntl)
          [] p = 51 -> R(BitAnd(s.m_il, Z180_IL_MASK))
          [] p = 52 -> R(BitOr(s.m_itc, Not8(Z180_ITC_MASK)))
          [] p = 53 -> R(255)
          [] p = 54 -> R(BitOr(s.m_rcr, Not8(Z180_RCR_MASK)))
          [] p = 55 -> R(255)
          [] p = 56 -> R(s.m_mmu_cbr)
          [] p = 57 -> R(s.m_mmu_bbr)
          [] p = 58 -> R(s.m_mmu_cbar)
          [] p = 59 -> R(255)
          [] p = 60 -> R(255)
          [] p = 61 -> R(255)
          [] p = 62 -> R(BitOr(BitOr(s.m_omcr, 64), Not8(Z180_OMCR_MASK)))
          [] p = 63 -> R(BitOr(s.m_iocr, Not8(Z180_IOCR_MASK)))
          [] OTHER  -> R(io.byte)

\* a TCR write that stores the written byte, the flag bits included
WriteTcrPlain(s, data) ==
    LET e0 == ~Test(s.m_tcr, Z180_TCR_TDE0) /\ Test(data, Z180_TCR_TDE0)
        e1 == ~Test(s.m_tcr, Z180_TCR_TDE1) /\ Test(data, Z180_TCR_TDE1)
    IN  [s EXCEPT !.m_tcr = data,
                  !.m_tmdr_value = [n \in 0 .. 1 |->
                      IF (n = 0 /\ e0) \/ (n = 1 /\ e1) THEN 0 ELSE s.m_tmdr_value[n]]]

\* a TCR write whose enable edge loads the reload value
WriteTcrReload(s, data) ==
    LET tifs == Z180_TCR_TIF1 + Z180_TCR_TIF0
        new  == BitOr(BitAnd(s.m_tcr, tifs), BitClr(data, tifs))
        e0   == ~Test(s.m_tcr, Z180_TCR_TDE0) /\ Test(new, Z180_TCR_TDE0)
        e1   == ~Test(s.m_tcr, Z180_TCR_TDE1) /\ Test(new, Z180_TCR_TDE1)
    IN  [s EXCEPT !.m_tcr = new,
                  !.m_tmdr_value = [n \in 0 .. 1 |->
                      IF (n = 0 /\ e0) \/ (n = 1 /\ e1) THEN s.m_rldr[n]
                      ELSE s.m_tmdr_value[n]]]

\* case 0x10 of z180_writecontrol: the TCR write and its enable edge
WriteTcr(s, data) ==
    LET tifs == Z180_TCR_TIF1 + Z180_TCR_TIF0
        new  == BitOr(BitAnd(s.m_tcr, tifs), BitClr(data, tifs))
        e0   == ~Test(s.m_tcr, Z180_TCR_TDE0) /\ Test(new, Z180_TCR_TDE0)
        e1   == ~Test(s.m_tcr, Z180_TCR_TDE1) /\ Test(new, Z180_TCR_TDE1)
    IN  [s EXCEPT !.m_tcr = new,
                  !.m_tmdr_value = [n \in 0 .. 1 |->
                      IF (n = 0 /\ e0) \/ (n = 1 /\ e1) THEN 0 ELSE s.m_tmdr_value[n]]]

\* a DSTAT write that stores the written byte, DME included
WriteDstatPlain(s, data) ==
    [s EXCEPT !.m_dstat = BitAnd(data, Z180_DSTAT_MASK + Z180_DSTAT_DME)]

\* case 0x30 of z180_writecontrol: the DSTAT write
WriteDstat(s, data) ==
    LET stored == BitOr(BitAnd(s.m_dstat, Z180_DSTAT_DME),
                        BitClr(BitAnd(data, Z180_DSTAT_MASK), Z180_DSTAT_DME))
        arm    == \/ Test(data, Z180_DSTAT_DE1) /\ ~Test(data, Z180_DSTAT_DWE1)
                  \/ Test(data, Z180_DSTAT_DE0) /\ ~Test(data, Z180_DSTAT_DWE0)
    IN  [s EXCEPT !.m_dstat = IF arm THEN BitOr(stored, Z180_DSTAT_DME) ELSE stored]

\* z180_device::z180_writecontrol
z180_writecontrol(s, port, data) ==
    LET p == RemapPort(s, port)
    IN  CASE p = 0  -> [s EXCEPT !.m_asci_cntla[0] = data]
          [] p = 1  -> [s EXCEPT !.m_asci_cntla[1] = data]
          [] p = 2  -> [s EXCEPT !.m_asci_cntlb[0] = data]
          [] p = 3  -> [s EXCEPT !.m_asci_cntlb[1] = data]
          [] p = 4  -> [s EXCEPT !.m_asci_stat[0] =
                            BitOr(BitClr(s.m_asci_stat[0], 9), BitAnd(data, 9))]
          [] p = 5  -> [s EXCEPT !.m_asci_stat[1] =
                            BitOr(BitClr(s.m_asci_stat[1], 13), BitAnd(data, 13))]
          [] p = 6  -> [s EXCEPT !.m_asci_tdr[0] = data]
          [] p = 7  -> [s EXCEPT !.m_asci_tdr[1] = data]
          [] p = 8  -> [s EXCEPT !.m_asci_rdr[0] = data]
          [] p = 9  -> [s EXCEPT !.m_asci_rdr[1] = data]
          [] p = 10 -> [s EXCEPT !.m_csio_cntr =
                            BitOr(BitAnd(s.m_csio_cntr, 176), BitClr(data, 176))]
          [] p = 11 -> [s EXCEPT !.m_csio_trdr = data]
          [] p = 12 -> [s EXCEPT !.m_tmdr[0] = SetLo(s.m_tmdr[0], data),
                                 !.m_tmdr_value[0] = BitAnd(s.m_tmdr_value[0], 65280) + data]
          [] p = 13 -> [s EXCEPT !.m_tmdr[0] = SetHi(s.m_tmdr[0], data),
                                 !.m_tmdr_value[0] = BitAnd(s.m_tmdr_value[0], 255) + data * 256]
          [] p = 14 -> [s EXCEPT !.m_rldr[0] = SetLo(s.m_rldr[0], data)]
          [] p = 15 -> [s EXCEPT !.m_rldr[0] = SetHi(s.m_rldr[0], data)]
          [] p = 16 -> WriteTcr(s, data)
          [] p = 17 -> s
          [] p = 18 -> [s EXCEPT !.m_asci_ext[0] =
                            BitOr(BitAnd(s.m_asci_ext[0], 2),
                                  BitClr(BitAnd(data, Z180_ASEXT0_MASK), 2))]
          [] p = 19 -> [s EXCEPT !.m_asci_ext[1] =
                            BitOr(BitAnd(s.m_asci_ext[1], 2),
                                  BitClr(BitAnd(data, Z180_ASEXT1_MASK), 2))]
          [] p = 20 -> [s EXCEPT !.m_tmdr[1] = SetLo(s.m_tmdr[1], data),
                                 !.m_tmdr_value[1] = BitAnd(s.m_tmdr_value[1], 65280) + data]
          [] p = 21 -> [s EXCEPT !.m_tmdr[1] = SetHi(s.m_tmdr[1], data),
                                 !.m_tmdr_value[1] = BitOr(BitAnd(s.m_tmdr_value[1], 255), data)]
          [] p = 22 -> [s EXCEPT !.m_rldr[1] = SetLo(s.m_rldr[1], data)]
          [] p = 23 -> [s EXCEPT !.m_rldr[1] = SetHi(s.m_rldr[1], data)]
          [] p = 24 -> s
          [] p = 25 -> s
          [] p = 26 -> [s EXCEPT !.m_asci_tc[0] = SetLo(s.m_asci_tc[0], data)]
          [] p = 27 -> [s EXCEPT !.m_asci_tc[0] = SetHi(s.m_asci_tc[0], data)]
          [] p = 28 -> [s EXCEPT !.m_asci_tc[1] = SetLo(s.m_asci_tc[1], data)]
          [] p = 29 -> [s EXCEPT !.m_asci_tc[1] = SetHi(s.m_asci_tc[1], data)]
          [] p = 30 -> [s EXCEPT !.m_cmr = BitAnd(data, Z180_CMR_MASK)]
          [] p = 31 -> [s EXCEPT !.m_ccr = data]
          [] p = 32 -> [s EXCEPT !.m_dma_sar0 = SetLo(s.m_dma_sar0, data)]
          [] p = 33 -> [s EXCEPT !.m_dma_sar0 = SetHi(s.m_dma_sar0, data)]
          [] p = 34 -> [s EXCEPT !.m_dma_sar0 = SetH2(s.m_dma_sar0, BitAnd(data, 15))]
          [] p = 35 -> [s EXCEPT !.m_dma_dar0 = SetLo(s.m_dma_dar0, data)]
          [] p = 36 -> [s EXCEPT !.m_dma_dar0 = SetHi(s.m_dma_dar0, data)]
          [] p = 37 -> [s EXCEPT !.m_dma_dar0 = SetH2(s.m_dma_dar0, BitAnd(data, 15))]
          [] p = 38 -> [s EXCEPT !.m_dma_bcr[0] = SetLo(s.m_dma_bcr[0], data)]
          [] p = 39 -> [s EXCEPT !.m_dma_bcr[0] = SetHi(s.m_dma_bcr[0], data)]
          [] p = 40 -> [s EXCEPT !.m_dma_mar1 = SetLo(s.m_dma_mar1, data)]
          [] p = 41 -> [s EXCEPT !.m_dma_mar1 = SetHi(s.m_dma_mar1, data)]
          [] p = 42 -> [s EXCEPT !.m_dma_mar1 = SetH2(s.m_dma_mar1, BitAnd(data, 15))]
          [] p = 43 -> [s EXCEPT !.m_dma_iar1 = SetLo(s.m_dma_iar1, data)]
          [] p = 44 -> [s EXCEPT !.m_dma_iar1 = SetHi(s.m_dma_iar1, data)]
          [] p = 45 -> [s EXCEPT !.m_dma_iar1 = SetH2(s.m_dma_iar1, BitAnd(data, 207))]
          [] p = 46 -> [s EXCEPT !.m_dma_bcr[1] = SetLo(s.m_dma_bcr[1], data)]
          [] p = 47 -> [s EXCEPT !.m_dma_bcr[1] = SetHi(s.m_dma_bcr[1], data)]
          [] p = 48 -> WriteDstat(s, data)
          [] p = 49 -> [s EXCEPT !.m_dmode = BitAnd(data, Z180_DMODE_MASK)]
          [] p = 50 -> [s EXCEPT !.m_dcntl = data]
          [] p = 51 -> [s EXCEPT !.m_il = BitAnd(data, Z180_IL_MASK)]
          [] p = 52 -> [s EXCEPT !.m_itc =
                            BitOr(BitAnd(s.m_itc, Z180_ITC_UFO),
                                  BitClr(BitAnd(data, Z180_ITC_MASK), Z180_ITC_UFO))]
          [] p = 53 -> s
          [] p = 54 -> [s EXCEPT !.m_rcr = BitAnd(data, Z180_RCR_MASK)]
          [] p = 55 -> s
          [] p = 56 -> z180_mmu([s EXCEPT !.m_mmu_cbr = data])
          [] p = 57 -> z180_mmu([s EXCEPT !.m_mmu_bbr = data])
          [] p = 58 -> z180_mmu([s EXCEPT !.m_mmu_cbar = data])
          [] p = 59 -> s
          [] p = 60 -> s
          [] p = 61 -> s
          [] p = 62 -> [s EXCEPT !.m_omcr = BitAnd(data, Z180_OMCR_MASK)]
          [] p = 63 -> [s EXCEPT !.m_iocr = BitAnd(data, Z180_IOCR_MASK)]
          [] OTHER  -> s

\* a sequence of z180_writecontrol calls, <<port, data>> each, in order
RECURSIVE Program(_, _)
Program(s, writes) ==
    IF writes = <<>> THEN s
    ELSE Program(z180_writecontrol(s, Head(writes)[1], Head(writes)[2]), Tail(writes))

----------------------------------------------------------------------------
(* Observations shared by the specifications *)

\* nothing observed yet. Of the last step, as far as the step records it: the
\* operation (op), its port, data, what the external space held (ext) and what
\* it returned (ret), the interrupt serviced (irq), the units a DMA dispatch
\* transferred, its cycles, whether TEND0 was up during a transfer (tendw), the
\* cycle budget of the dispatch (max), TCR and the pending set before; of a
\* step of execute_run also where it ran (at), the budget left before it (ic),
\* whether a check found the CPU halted with an enabled line asserted (wake),
\* whether an instruction slot found it halted; of a state inspection the
\* entry it named (at); of an 8-bit addition or
\* subtraction the operands (a, b), the carry-in (cy) and the flags read from
\* the table (f); the state before (pre); the accesses of the external I/O
\* space a register access made (bus)
NoObs ==
    [op |-> "none", port |-> 0, data |-> 0, ext |-> 0, ret |-> 0, irq |-> -1,
     xfers |-> 0, cycles |-> 0, tendw |-> 0, max |-> 0, tcr |-> 0,
     pend |-> {}, at |-> "idle", ic |-> 0, wake |-> FALSE, halted |-> FALSE,
     a |-> 0, b |-> 0, cy |-> 0, f |-> 0,
     pre |-> ResetState, bus |-> << >>]

\* no experiment running: per timer, whether it is enabled (on) since a 0->1
\* write of TDEn, whether its data and reload registers were left alone since
\* (clean), the ticks since then, the reload value then; the transfers the
\* two DMA channels made (x0, x1) and the byte count programmed into them
\* (count); the register writes made (writes); per timer the high byte its
\* counter had at the last low-byte read made while it was enabled, until a
\* high-byte read follows (hi, -1: none, -2: the last read of its data
\* register was a high-byte read); of the
\* run-loop pass under way or just done: the T-states it cost, those of them
\* its DMA service cost, whether it serviced an interrupt, whether its
\* instruction slot found the CPU halted
NoHist ==
    [t |-> [n \in 0 .. 1 |-> [on |-> FALSE, clean |-> FALSE, ticks |-> 0, R |-> 0]],
     x0 |-> 0, x1 |-> 0, count |-> 0, writes |-> 0, hi |-> [n \in 0 .. 1 |-> -1],
     cost |-> 0, dma |-> 0, took |-> FALSE, halt |-> FALSE, done |-> FALSE]

----------------------------------------------------------------------------
(* SpecIo: the register bank, accessed with ports inside and outside the   *)
(* internal-register window                                                *)

IoPorts == {14, 63, 78, 127, 142, 206, 270} \cup {17, 25, 53, 55, 59, 60, 61, 81} \cup {48}
IoData  == {0, 64, 128, 165}
IoExt   == {17, 90}

\* an external write at the port the register bank decodes
iospace_write_byte_remapped(s, port, data) ==
    [kind |-> "write", port |-> RemapPort(s, port), data |-> data, seen |-> s]

\* m_iospace->read_byte(port) at the head of z180_readcontrol: what the
\* external I/O space is asked, what it answers, and the device as the
\* external handler finds it
iospace_read_byte(s, port, io) ==
    [kind |-> "read", port |-> port, data |-> io.byte, seen |-> s]

\* m_iospace->write_byte(port, data) at the head of z180_writecontrol
iospace_write_byte(s, port, data) ==
    [kind |-> "write", port |-> port, data |-> data, seen |-> s]

IoInit ==
    /\ z = ResetState
    /\ pc = "idle"
    /\ m_icount = 0
    /\ last = NoObs
    /\ hist = NoHist

IoRead ==
    \E port \in IoPorts, ext \in IoExt :
        LET r == z180_readcontrol(z, port, [byte |-> ext, frc |-> 0])
        IN  /\ z' = r.st
            /\ last' = [NoObs EXCEPT !.op = "read", !.port = port, !.ext = ext,
                                     !.ret = r.data, !.pre = z,
                                     !.bus = <<iospace_read_byte(z, port, [byte |-> ext])>>]
            /\ UNCHANGED <<pc, m_icount, hist>>

IoWrite ==
    \E port \in IoPorts, data \in IoData :
        /\ z' = z180_writecontrol(z, port, data)
        /\ last' = [NoObs EXCEPT !.op = "write", !.port = port, !.data = data, !.pre = z,
                                 !.bus = <<iospace_write_byte(z, port, data)>>]
        /\ UNCHANGED <<pc, m_icount, hist>>

IoNext == IoRead \/ IoWrite

SpecIo == IoInit /\ [][IoNext]_vars

\* the port lies in the window [B, B + 0x3F] of the register bank as it was
\* before the access
InWindow(s, port) ==
    LET B == BitAnd(s.m_iocr, 192) IN port >= B /\ port <= B + 63

\* C8: a port outside the remapped window [B, B+0x3F] is no internal
\* register: a read returns what the external I/O space returned and a write
\* changes no internal register.
C8_PortWindow ==
    (last.op \in {"read", "write"} /\ ~InWindow(last.pre, last.port)) =>
        /\ last.op = "read" => (last.ret = last.ext /\ z = last.pre)
        /\ last.op = "write" => z = last.pre

----------------------------------------------------------------------------
(* SpecTimer: the two reload timers, programmed through the register bank  *)
(* and clocked by the T-states of the work done in between                 *)

TimerPorts(n) == IF n = 0 THEN [tmdrl |-> 12, tmdrh |-> 13, rldrl |-> 14, rldrh |-> 15]
                          ELSE [tmdrl |-> 20, tmdrh |-> 21, rldrl |-> 22, rldrh |-> 23]

\* the timers after reset, with a reload value of 0 programmed
TimerInit ==
    /\ z = Program(ResetState, << <<14, 0>>, <<15, 0>>, <<22, 0>>, <<23, 0>> >>)
    /\ pc = "idle"
    /\ m_icount = 0
    /\ last = NoObs
    /\ hist = NoHist

\* hist after a z180_writecontrol call: a 0->1 write of TDEn starts the
\* experiment of timer n, any other change of its registers ends it
HistWrite(s, t, port) ==
    [n \in 0 .. 1 |->
        LET tde == IF n = 0 THEN Z180_TCR_TDE0 ELSE Z180_TCR_TDE1
            q   == TimerPorts(n)
            p   == RemapPort(s, port)
        IN  IF p = 16 /\ ~Test(s.m_tcr, tde) /\ Test(t.m_tcr, tde)
            THEN [on |-> TRUE, clean |-> TRUE, ticks |-> 0, R |-> s.m_rldr[n]]
            ELSE IF p = 16 /\ ~Test(t.m_tcr, tde)
            THEN [on |-> FALSE, clean |-> FALSE, ticks |-> 0, R |-> 0]
            ELSE IF p \in {q.tmdrl, q.tmdrh, q.rldrl, q.rldrh}
            THEN [hist.t[n] EXCEPT !.clean = FALSE]
            ELSE hist.t[n]]

\* the program writes the low byte of the reload register of a stopped timer
TimerWriteRldr ==
    \E n \in 0 .. 1, data \in 0 .. MaxReload :
        LET port == TimerPorts(n).rldrl
            t    == z180_writecontrol(z, port, data)
        IN  /\ ~Test(z.m_tcr, IF n = 0 THEN Z180_TCR_TDE0 ELSE Z180_TCR_TDE1)
            /\ z' = t
            /\ last' = [NoObs EXCEPT !.op = "write"]
            /\ hist' = [hist EXCEPT !.t = HistWrite(z, t, port)]
            /\ UNCHANGED <<pc, m_icount>>

\* the program writes TCR
TimerWriteTcr ==
    \E data \in {0, 1, 2, 3} :
        LET t == z180_writecontrol(z, 16, data)
        IN  /\ z' = t
            /\ last' = [NoObs EXCEPT !.op = "write"]
            /\ hist' = [hist EXCEPT !.t = HistWrite(z, t, 16)]
            /\ UNCHANGED <<pc, m_icount>>

\* the program reads TCR (every second read clears the interrupt flags)
TimerReadTcr ==
    LET r == z180_readcontrol(z, 16, [byte |-> 0, frc |-> 0])
    IN  /\ z' = r.st
        /\ last' = [NoObs EXCEPT !.op = "read"]
        /\ UNCHANGED <<pc, m_icount, hist>>

\* T-states a piece of work in between costs: half a timer tick, or a whole
TimerCycles == {10, 20}

\* the T-states of a piece of work pass: one handle_io_timers call, which
\* holds at most one timer tick (last.data is the number of ticks it held,
\* last.tcr is TCR before it)
TimerClock ==
    \E cycles \in TimerCycles :
        LET k == (z.m_timer_cnt + cycles) \div 20
        IN  /\ \A n \in 0 .. 1 : hist.t[n].ticks < MaxTicks
            /\ z' = handle_io_timers(z, cycles)
            /\ last' = [NoObs EXCEPT !.op = "clock", !.data = k, !.tcr = z.m_tcr,
                                     !.cycles = cycles]
            /\ hist' = [hist EXCEPT !.t = [n \in 0 .. 1 |->
                            IF hist.t[n].on
                            THEN [hist.t[n] EXCEPT !.ticks = @ + k] ELSE hist.t[n]]]
            /\ UNCHANGED <<pc, m_icount>>

TimerNext ==
    TimerWriteRldr \/ TimerWriteTcr \/ TimerReadTcr \/ TimerClock

SpecTimer == TimerInit /\ [][TimerNext]_vars

\* TIFn in a TCR value
Tif(tcr, n) == Test(tcr, IF n = 0 THEN Z180_TCR_TIF0 ELSE Z180_TCR_TIF1)

\* C4: after a 0->1 write of TDEn with reload value R programmed, TIFn is
\* raised when the down-counter reaches zero after R+1 timer ticks, and not
\* earlier.
C4_RoundTrip ==
    \A n \in 0 .. 1 :
        (/\ hist.t[n].on /\ hist.t[n].clean
         /\ last.op = "clock" /\ ~Tif(last.tcr, n) /\ Tif(z.m_tcr, n))
            => hist.t[n].ticks >= hist.t[n].R + 1

----------------------------------------------------------------------------
(* SpecInt: the interrupt sources of this file (the IRQ lines, the timers,  *)
(* the completion of channel 0) raise their pending flags, and             *)
(* check_interrupts arbitrates                                             *)

\* register writes of the program under SpecInt: ITC (IRQ0 alone, all lines)
IntWrites == { <<52, 1>>, <<52, 7>>, <<16, 3>>, <<16, 51>> }

\* the set-up of SpecInt: both timers with reload value 0, enabled with their
\* interrupts (TCR), channel 0 with a count of 1, armed with its completion
\* interrupt (DSTAT)
IntSetup ==
    << <<14, 0>>, <<15, 0>>, <<22, 0>>, <<23, 0>>, <<16, 51>>, <<38, 1>>, <<48, 100>> >>

IntInit ==
    /\ z = Program(ResetState, IntSetup)
    /\ pc = "idle"
    /\ m_icount = 0
    /\ last = NoObs
    /\ hist = NoHist

\* a device drives an IRQ line
IntSetInput ==
    \E irqline \in {"IRQ0", "IRQ1", "IRQ2"}, state \in {CLEAR_LINE, ASSERT_LINE} :
        /\ z' = execute_set_input(z, irqline, state)
        /\ last' = NoObs
        /\ UNCHANGED <<pc, m_icount, hist>>

\* the program writes a register
IntWrite ==
    \E w \in IntWrites :
        /\ z' = z180_writecontrol(z, w[1], w[2])
        /\ last' = NoObs
        /\ UNCHANGED <<pc, m_icount, hist>>

\* the instruction slot of a pass, holding EI, DI or an instruction that
\* leaves the interrupt state alone: m_after_EI is cleared, the instruction runs
IntOp ==
    \E op \in {"EI", "DI", "NOP"} :
        LET s == [z EXCEPT !.after_EI = 0]
        IN  /\ z' = CASE op = "EI" -> op_ei(s) [] op = "DI" -> op_di(s) [] OTHER -> s
            /\ last' = NoObs
            /\ UNCHANGED <<pc, m_icount, hist>>

\* a timer tick passes
IntClock ==
    /\ z' = handle_io_timers(z, 20)
    /\ last' = [NoObs EXCEPT !.op = "clock"]
    /\ UNCHANGED <<pc, m_icount, hist>>

\* channel 0 is serviced in cycle-steal mode
IntDma0 ==
    /\ z' = z180_dma0(z, 6, [byte |-> 0, wait |-> 0]).st
    /\ last' = NoObs
    /\ UNCHANGED <<pc, m_icount, hist>>

\* an interrupt-check point: one check_interrupts call (last.pend: the sources
\* pending once the asserted lines are recognised, last.irq: the one serviced)
IntCheck ==
    \E ack \in AckCycles, iff \in 0 .. 1 :
        LET r == check_interrupts(z, ack, iff)
        IN  /\ z' = r.st
            /\ last' = [NoObs EXCEPT !.op = "check", !.irq = r.irq, !.cycles = r.cycles,
                                     !.pend = Pending(PromoteIrq(z))]
            /\ UNCHANGED <<pc, m_icount, hist>>

IntNext == IntSetInput \/ IntWrite \/ IntOp \/ IntClock \/ IntDma0 \/ IntCheck

SpecInt == IntInit /\ [][IntNext]_vars

\* C1: one check_interrupts invocation with a non-empty set of pending
\* sources services exactly the one with the lowest priority index, and clears
\* that pending flag only: every other flag stays as it was.
C1_LowestIndexOnly ==
    (last.op = "check" /\ last.pend # {}) =>
        /\ last.irq = Min(last.pend)
        /\ Pending(z) = last.pend \ {last.irq}

\* PRT0 and IRQ0 were pending together, with more behind them: IRQ0 was
\* serviced and PRT0 is still pending
C1_Witness ==
    /\ last.op = "check"
    /\ {Z180_INT_IRQ0, Z180_INT_PRT0, Z180_INT_DMA0} \subseteq last.pend
    /\ last.irq = Z180_INT_IRQ0
    /\ z.m_int_pending[Z180_INT_PRT0] = 1
    /\ z.m_int_pending[Z180_INT_IRQ0] = 0

----------------------------------------------------------------------------
(* SpecDma0 and SpecDma1: the DMA channels, programmed in every addressing *)
(* mode, armed through DSTAT and dispatched as execute_run dispatches them *)

\* the DMODE SM/DM patterns
DmaModes == {0, 4, 8, 12, 16, 20, 24, 28, 32, 36, 40, 44, 48, 52, 56, 60}

\* DCNTL as reset leaves it (3 memory wait states, level-sensed requests,
\* channel 1 from memory to I/O, MAR1 upwards) and with no wait states:
\* edge-sensed requests and channel 1 from I/O to memory, MAR1 upwards (6)
\* or downwards (7), and level-sensed requests with channel 1 from memory
\* to I/O, MAR1 downwards (1)
DmaDcntl == {240, 6, 1, 7}

\* DSTAT writes that arm channel 0 (not touching DE1), channel 1 (not
\* touching DE0), or both
DmaArms == {96, 144, 192}

\* the cycle budgets of a channel-0 dispatch: the 6 of cycle stealing, and
\* one that lets a burst of MaxCount bytes with 3 wait states run to its end
DmaBudgets == {6, 12 * MaxCount}

\* the set-up of the channels: source 2, destination 5, count n (both
\* channels), channel-1 memory address 6 and I/O address 9
DmaSetup(mode, mmod, n, dcntl) ==
    << <<32, 2>>, <<35, 5>>, <<38, n>>, <<49, mode + mmod>>,
       <<40, 6>>, <<43, 9>>, <<46, n>>, <<50, dcntl>> >>

DmaInit ==
    /\ \E mode \in DmaModes, mmod \in {0, Z180_DMODE_MMOD}, n \in 1 .. MaxCount,
          dcntl \in DmaDcntl :
            z = Program(ResetState, DmaSetup(mode, mmod, n, dcntl))
    /\ pc = "idle"
    /\ m_icount = 0
    /\ last = NoObs
    /\ hist = NoHist

\* the program arms channels with a DSTAT write
DmaArm ==
    \E data \in DmaArms :
        /\ z' = z180_writecontrol(z, 48, data)
        /\ last' = NoObs
        /\ UNCHANGED <<pc, m_icount, hist>>

\* a device drives the request line of channel 0
DmaSetDreq0 ==
    \E state \in {CLEAR_LINE, ASSERT_LINE} :
        /\ z' = execute_set_input(z, "DREQ0", state)
        /\ last' = NoObs
        /\ UNCHANGED <<pc, m_icount, hist>>

\* a device drives the request line of channel 1
DmaSetDreq1 ==
    \E state \in {CLEAR_LINE, ASSERT_LINE} :
        /\ z' = execute_set_input(z, "DREQ1", state)
        /\ last' = NoObs
        /\ UNCHANGED <<pc, m_icount, hist>>

\* one z180_dma0 dispatch
DmaDispatch0 ==
    \E max \in DmaBudgets, wait \in IoWaits :
        LET r == z180_dma0(z, max, [byte |-> 90, wait |-> wait])
        IN  /\ hist.x0 < MaxXfers
            /\ z' = r.st
            /\ last' = [NoObs EXCEPT !.op = "dma0", !.max = max, !.xfers = r.xfers,
                                     !.cycles = r.cycles, !.tendw = r.tendw, !.pre = z]
            /\ hist' = [hist EXCEPT !.x0 = @ + r.xfers]
            /\ UNCHANGED <<pc, m_icount>>

\* one z180_dma1 dispatch
DmaDispatch1 ==
    \E wait \in IoWaits :
        LET r == z180_dma1(z, [byte |-> 90, wait |-> wait])
        IN  /\ hist.x1 < MaxXfers
            /\ z' = r.st
            /\ last' = [NoObs EXCEPT !.op = "dma1", !.xfers = r.xfers,
                                     !.cycles = r.cycles, !.pre = z,
                                     !.port = r.port, !.data = r.out, !.ext = wait]
            /\ hist' = [hist EXCEPT !.x1 = @ + r.xfers]
            /\ UNCHANGED <<pc, m_icount>>

Dma0Next == DmaArm \/ DmaSetDreq0 \/ DmaDispatch0

SpecDma0 == DmaInit /\ [][Dma0Next]_vars

Dma1Next == DmaArm \/ DmaSetDreq1 \/ DmaDispatch1

SpecDma1 == DmaInit /\ [][Dma1Next]_vars

\* the address is one of the tracked memory cells
InMem(a) == a >= 0 /\ a < MemSize

\* a channel-0 dispatch of a memory-to-memory burst of N bytes whose budget
\* covers all of them: s is the state before, max the budget
BurstCase(s, max) ==
    /\ Test(s.m_dstat, Z180_DSTAT_DE0)
    /\ Test(s.m_dmode, Z180_DMODE_MMOD)
    /\ Dma0Kind(Dma0Mode(s)) = "mm"
    /\ s.m_dma_bcr[0] >= 1
    /\ max >= s.m_dma_bcr[0] * (6 + 2 * memory_wait_states(s))

\* the bytes of the burst are where they belong: byte k went from
\* source + k * step to destination + k * step (where no other byte of the
\* burst overwrote either cell), every other cell is as it was
BurstCopied(s, t) ==
    LET N    == s.m_dma_bcr[0]
        S(k) == s.m_dma_sar0 + k * Dma0Src(Dma0Mode(s))
        D(k) == s.m_dma_dar0 + k * Dma0Dst(Dma0Mode(s))
    IN  /\ \A k \in 0 .. N - 1 :
              (/\ InMem(D(k))
               /\ \A j \in k + 1 .. N - 1 : D(j) # D(k)
               /\ \A j \in 0 .. k - 1 : D(j) # S(k))
                  => t.mem[D(k)] = IF InMem(S(k)) THEN s.mem[S(k)] ELSE 255
        /\ \A a \in 0 .. MemSize - 1 :
              (\A k \in 0 .. N - 1 : D(k) # a) => t.mem[a] = s.mem[a]

\* what C2 says of the dispatch, but for the transfer-end flag
BurstDone(s, t) ==
    LET N == s.m_dma_bcr[0]
    IN  /\ last.xfers = N
        /\ BurstCopied(s, t)
        /\ t.m_dma_sar0 = s.m_dma_sar0 + N * Dma0Src(Dma0Mode(s))
        /\ t.m_dma_dar0 = s.m_dma_dar0 + N * Dma0Dst(Dma0Mode(s))
        /\ t.m_dma_bcr[0] = 0
        /\ ~Test(t.m_dstat, Z180_DSTAT_DE0)

C3_CountConsumed ==
    (last.op = "dma1" /\ last.xfers = 1) =>
        LET b1 == IF last.pre.m_dma_bcr[1] = 0 THEN 65536 ELSE last.pre.m_dma_bcr[1]
        IN  /\ z.m_dma_bcr[1] = U16(b1 - 1)
            /\ b1 = 1 => ~Test(z.m_dstat, Z180_DSTAT_DE1)

----------------------------------------------------------------------------
(* The instruction slot and the control flow of execute_run *)

\* ROP(): the instruction at PC. The program (z.prog) is straight-line code
\* from address 0; every address behind it, the interrupt vectors included,
\* holds a jump to itself (JR $).
Fetch(s) ==
    IF s.PC < Len(s.prog) THEN s.prog[s.PC + 1] ELSE [op |-> "JR", port |-> 0, data |-> 0]

\* exec_op (z180op.hxx), for the instructions the programs use: NOP, EI,
\* HALT (the halt flag is set and PC stays on the instruction), OUT0 (a write
\* to the register bank) and JR $, with their T-states
exec_op(s) ==
    LET i == Fetch(s)
        n == [s EXCEPT !.PC = s.PC + 1]
    IN  CASE i.op = "NOP"  -> [st |-> n, cycles |-> 3]
          [] i.op = "EI"   -> [st |-> op_ei(n), cycles |-> 3]
          [] i.op = "HALT" -> [st |-> [s EXCEPT !.HALT = 1], cycles |-> 3]
          [] i.op = "OUT0" -> [st |-> z180_writecontrol(n, i.port, i.data), cycles |-> 13]
          [] OTHER         -> [st |-> s, cycles |-> 8]

\* an instruction slot that costs a halted CPU nothing
InstructionSlotFree(s) ==
    IF s.HALT = 0 THEN exec_op(s) ELSE [st |-> s, cycles |-> 0]

\* an instruction slot that costs a halted CPU 4 T-states
InstructionSlotSlow(s) ==
    IF s.HALT = 0 THEN exec_op(s) ELSE [st |-> s, cycles |-> 4]

\* the instruction slot of a pass: "if (!m_HALT) ... else curcycles = 3"
InstructionSlot(s) ==
    IF s.HALT = 0 THEN exec_op(s) ELSE [st |-> s, cycles |-> 3]

\* an NMI that is taken only with interrupts enabled
NmiServiceMasked(s) ==
    IF s.IFF1 = 1
    THEN handle_io_timers(
             [s EXCEPT !.HALT = 0, !.m_dstat = BitClr(s.m_dstat, Z180_DSTAT_DME),
                       !.IFF2 = s.IFF1, !.IFF1 = 0, !.PC = 102, !.m_nmi_pending = 0], 11)
    ELSE s

\* PUSH (z180ops.h): SP goes down by 2 and the word is stored at the new SP,
\* low byte first; the MMU is as reset leaves it, logical and physical
\* addresses being the same
PUSH(s, w) ==
    LET sp == (s.SP - 2) % 65536
    IN  write_byte(write_byte([s EXCEPT !.SP = sp], sp, Lo(w)), (sp + 1) % 65536, Hi(w))

\* an NMI service that pushes nothing
NmiServiceNoPush(s) ==
    handle_io_timers(
        [s EXCEPT !.HALT = 0, !.m_dstat = BitClr(s.m_dstat, Z180_DSTAT_DME),
                  !.IFF2 = s.IFF1, !.IFF1 = 0, !.PC = 102, !.m_nmi_pending = 0], 11)

\* the NMI service at the entry of execute_run (but for m_icount -= 11)
NmiService(s) ==
    LET a == [s EXCEPT !.HALT = 0, !.m_dstat = BitClr(s.m_dstat, Z180_DSTAT_DME),
                       !.IFF2 = s.IFF1, !.IFF1 = 0]
    IN  handle_io_timers(
            [PUSH(a, a.PC) EXCEPT !.PC = 102, !.m_nmi_pending = 0], 11)

\* "check if any DMA transfer is running"
DmaActive(s) == Test(s.m_dstat, Z180_DSTAT_DME)

\* "check if DMA channel 0 is running and also is in burst mode"
Burst(s) == Test(s.m_dstat, Z180_DSTAT_DE0) /\ Test(s.m_dmode, Z180_DMODE_MMOD)

\* the branch taken under "again:" when DMA is active
DmaBranch(s) == IF Burst(s) THEN "burst" ELSE "s_ci"

\* a main loop that is entered whatever budget is left
AtMainIfUnbudgeted(s, ic) ==
    IF DmaActive(s) THEN DmaBranch(s) ELSE "m_ci"

\* "if (m_icount > 0)" and the head of the main loop: where control is next
\* (ic: the budget left)
AtMainIf(s, ic) ==
    IF ic > 0
    THEN IF DmaActive(s) THEN DmaBranch(s) ELSE "m_ci"
    ELSE "idle"

\* the label "again:"
AtAgain(s, ic) ==
    IF DmaActive(s) THEN DmaBranch(s) ELSE AtMainIf(s, ic)

\* a DMA loop that goes on to the channel service whatever the instruction did
AfterStealOpNoRecheck(s, ic) == "s_dma0"

\* after the instruction slot of the DMA loop: "if channel 0 was started in
\* burst mode, go recheck the mode"
AfterStealOp(s, ic) ==
    IF Burst(s) THEN AtAgain(s, ic) ELSE "s_dma0"

\* the end of a pass of the DMA loop: "If DMA is done break out to the faster
\* loop", "while (m_icount > 0)"
AfterStealDma1(s, ic) ==
    IF ~DmaActive(s) THEN AtMainIf(s, ic)
    ELSE IF ic > 0 THEN "s_ci" ELSE AtMainIf(s, ic)

\* the interrupt-check point of a pass: check_interrupts, the timers clocked
\* for the acknowledge, m_after_EI cleared
CheckPoint(s, ack, iff) ==
    LET r == check_interrupts(s, ack, iff)
    IN  [st |-> [handle_io_timers(r.st, r.cycles) EXCEPT !.after_EI = 0],
         cycles |-> r.cycles, irq |-> r.irq]

\* the CPU is halted with interrupts enabled and IRQ0, enabled in ITC, asserted
Wakeable(s) ==
    /\ s.HALT = 1 /\ s.IFF1 = 1
    /\ s.m_irq_state[0] # CLEAR_LINE /\ Test(s.m_itc, Z180_ITC_ITE0)

----------------------------------------------------------------------------
(* SpecRun: execute_run, called again and again with a cycle budget, runs a *)
(* program that arms the DMA channels, enables interrupts and halts, while *)
(* devices drive NMI and IRQ0 between the calls                            *)

\* the cycle budgets of a call: one that the first instruction overshoots,
\* and one that covers several passes
RunBudgets == {2, MaxBudget}

\* the programs: halt with interrupts enabled; the same after arming channel
\* 0 (OUT0 to DSTAT) from the main loop; the same after arming channel 1
\* (which then waits for DREQ1) and then, from the DMA loop, channel 0
RunPrograms ==
    LET I(op)     == [op |-> op, port |-> 0, data |-> 0]
        O(p, d)   == [op |-> "OUT0", port |-> p, data |-> d]
    IN  { << I("EI"), I("HALT") >>,
          << O(48, 96), I("EI"), I("HALT") >>,
          << O(48, 144), O(48, 96), I("NOP"), I("EI"), I("HALT") >> }

\* what the external I/O space returns to a DMA read, and the wait it adds
RunIo == [byte |-> 90, wait |-> 0]

\* channel 0 is set up from memory to memory, both addresses upwards, in
\* cycle-steal or in burst mode, for MaxCount bytes; the stack lies at the top
\* of the tracked memory
RunInit ==
    /\ \E prog \in RunPrograms, mmod \in {0, Z180_DMODE_MMOD} :
            z = [Program(ResetState, DmaSetup(0, mmod, MaxCount, 240))
                     EXCEPT !.prog = prog, !.SP = MemSize]
    /\ pc = "idle"
    /\ m_icount = 0
    /\ last = NoObs
    /\ hist = NoHist

\* a device drives NMI or IRQ0; input lines change between two calls
\* of execute_run ("they can only be set externally"); NMI rises while fewer
\* than MaxNmi NMIs were serviced (each took two bytes of stack)
RunSetInput ==
    \E irqline \in {"NMI", "IRQ0"}, state \in {CLEAR_LINE, ASSERT_LINE} :
        /\ pc = "idle"
        /\ (irqline = "NMI" /\ state # CLEAR_LINE /\ z.m_nmi_state = CLEAR_LINE)
              => MemSize - z.SP < 2 * MaxNmi
        /\ z' = execute_set_input(z, irqline, state)
        /\ z' # z
        /\ last' = NoObs
        /\ hist' = NoHist
        /\ UNCHANGED <<pc, m_icount>>

\* the scheduler calls execute_run with a budget
RunEnter ==
    \E budget \in RunBudgets :
        /\ pc = "idle"
        /\ pc' = "entry"
        /\ m_icount' = budget
        /\ last' = NoObs
        /\ hist' = NoHist
        /\ UNCHANGED z

\* "check for NMIs on the way in", then the label "again:"
RunNmiCheck ==
    /\ pc = "entry"
    /\ IF z.m_nmi_pending # 0
       THEN /\ z' = NmiService(z)
            /\ m_icount' = m_icount - 11
            /\ last' = [NoObs EXCEPT !.op = "nmi", !.at = pc, !.cycles = 11,
                                     !.ic = m_icount, !.pre = z]
       ELSE /\ last' = NoObs
            /\ UNCHANGED <<z, m_icount>>
    /\ pc' = AtAgain(z', m_icount')
    /\ UNCHANGED hist

\* the burst branch: channel 0 runs on the whole budget
RunBurst ==
    /\ pc = "burst"
    /\ \E r \in {z180_dma0(z, m_icount, RunIo)} :
        /\ \E t \in {handle_io_timers(r.st, r.cycles)} : z' = t
        /\ m_icount' = m_icount - r.cycles
        /\ pc' = AtMainIf(z', m_icount')
        /\ last' = [NoObs EXCEPT !.op = "dma0", !.at = pc, !.cycles = r.cycles,
                                 !.xfers = r.xfers, !.ic = m_icount]
        /\ hist' = [hist EXCEPT !.cost = r.cycles, !.dma = r.cycles, !.took = FALSE,
                                !.halt = FALSE, !.done = TRUE]

\* the interrupt-check point of a pass of the DMA loop
RunStealCheck ==
    /\ pc = "s_ci"
    /\ \E ack \in AckCycles, iff \in 0 .. 1 :
        \E r \in {CheckPoint(z, ack, iff)} :
            /\ z' = r.st
            /\ m_icount' = m_icount - r.cycles
            /\ pc' = "s_op"
            /\ last' = [NoObs EXCEPT !.op = "check", !.at = pc, !.cycles = r.cycles,
                                     !.irq = r.irq, !.ic = m_icount,
                                     !.wake = Wakeable(z) /\ z.after_EI = 0]
            /\ hist' = [hist EXCEPT !.cost = r.cycles, !.dma = 0, !.took = r.irq >= 0,
                                    !.halt = FALSE, !.done = FALSE]

\* a DMA loop that serves channel 1 right after the instruction slot
RunStealOpThenDma1 ==
    /\ pc = "s_op"
    /\ \E r \in {InstructionSlot(z)} :
        /\ \E t \in {handle_io_timers(r.st, r.cycles)} : z' = t
        /\ m_icount' = m_icount - r.cycles
        /\ pc' = "s_dma1"
        /\ last' = [NoObs EXCEPT !.op = "op", !.at = pc, !.cycles = r.cycles,
                                 !.ic = m_icount, !.halted = z.HALT # 0]
        /\ hist' = [hist EXCEPT !.cost = @ + r.cycles, !.halt = z.HALT # 0]

\* the instruction slot of a pass of the DMA loop, and the recheck of the mode
RunStealOp ==
    /\ pc = "s_op"
    /\ \E r \in {InstructionSlot(z)} :
        /\ \E t \in {handle_io_timers(r.st, r.cycles)} : z' = t
        /\ m_icount' = m_icount - r.cycles
        /\ pc' = AfterStealOp(z', m_icount')
        /\ last' = [NoObs EXCEPT !.op = "op", !.at = pc, !.cycles = r.cycles,
                                 !.ic = m_icount, !.halted = z.HALT # 0,
                                 !.pre = IF z.HALT # 0 THEN z ELSE ResetState]
        /\ hist' = [hist EXCEPT !.cost = @ + r.cycles, !.halt = z.HALT # 0,
                                !.done = pc' # "s_dma0"]

\* the channel-0 service of a pass of the DMA loop
RunStealDma0 ==
    /\ pc = "s_dma0"
    /\ \E r \in {z180_dma0(z, 6, RunIo)} :
        /\ \E t \in {handle_io_timers(r.st, r.cycles)} : z' = t
        /\ m_icount' = m_icount - r.cycles
        /\ pc' = "s_dma1"
        /\ last' = [NoObs EXCEPT !.op = "dma0", !.at = pc, !.cycles = r.cycles,
                                 !.xfers = r.xfers, !.ic = m_icount]
        /\ hist' = [hist EXCEPT !.cost = @ + r.cycles, !.dma = @ + r.cycles]

\* the channel-1 service of a pass of the DMA loop, and the loop's exits
RunStealDma1 ==
    /\ pc = "s_dma1"
    /\ \E r \in {z180_dma1(z, RunIo)} :
        /\ \E t \in {handle_io_timers(r.st, r.cycles)} : z' = t
        /\ m_icount' = m_icount - r.cycles
        /\ pc' = AfterStealDma1(z', m_icount')
        /\ last' = [NoObs EXCEPT !.op = "dma1", !.at = pc, !.cycles = r.cycles,
                                 !.xfers = r.xfers, !.ic = m_icount]
        /\ hist' = [hist EXCEPT !.cost = @ + r.cycles, !.dma = @ + r.cycles,
                                !.done = TRUE]

\* the interrupt-check point of a pass of the main loop
RunMainCheck ==
    /\ pc = "m_ci"
    /\ \E ack \in AckCycles, iff \in 0 .. 1 :
        \E r \in {CheckPoint(z, ack, iff)} :
            /\ z' = r.st
            /\ m_icount' = m_icount - r.cycles
            /\ pc' = "m_op"
            /\ last' = [NoObs EXCEPT !.op = "check", !.at = pc, !.cycles = r.cycles,
                                     !.irq = r.irq, !.ic = m_icount,
                                     !.wake = Wakeable(z) /\ z.after_EI = 0]
            /\ hist' = [hist EXCEPT !.cost = r.cycles, !.dma = 0, !.took = r.irq >= 0,
                                    !.halt = FALSE, !.done = FALSE]

\* the instruction slot of a pass of the main loop, and the loop's condition
RunMainOp ==
    /\ pc = "m_op"
    /\ \E r \in {InstructionSlot(z)} :
        /\ \E t \in {handle_io_timers(r.st, r.cycles)} : z' = t
        /\ m_icount' = m_icount - r.cycles
        /\ pc' = AtMainIf(z', m_icount')
        /\ last' = [NoObs EXCEPT !.op = "op", !.at = pc, !.cycles = r.cycles,
                                 !.ic = m_icount, !.halted = z.HALT # 0,
                                 !.pre = IF z.HALT # 0 THEN z ELSE ResetState]
        /\ hist' = [hist EXCEPT !.cost = @ + r.cycles, !.halt = z.HALT # 0,
                                !.done = TRUE]

\* the steps of execute_run and of the scheduler that calls it
RunDriver ==
    \/ RunEnter \/ RunNmiCheck \/ RunBurst
    \/ RunStealCheck \/ RunStealOp \/ RunStealDma0 \/ RunStealDma1
    \/ RunMainCheck \/ RunMainOp

RunNext == RunSetInput \/ RunDriver

SpecRun == RunInit /\ [][RunNext]_vars

\* the scheduler keeps calling execute_run, and a call runs to its end
SpecRunFair == SpecRun /\ WF_vars(RunDriver)

\* C5 as stated: no unit of work (interrupt acknowledge, instruction, channel-0
\* service, channel-1 service) that costs cycles starts once the budget
\* m_icount is 0 or less.
C5_NoUnitOnceSpent ==
    (last.op \in {"check", "op", "dma0", "dma1"} /\ last.cycles > 0) => last.ic > 0

\* C5 as the code has it: the budget is tested where a pass begins, so an
\* interrupt-check point (the head of a pass of either loop) is reached with
\* m_icount > 0 only, and the units behind it in the pass start whatever is left.
C5_PassStartsInBudget ==
    /\ pc \in {"s_ci", "m_ci"} => m_icount > 0
    /\ last.op = "check" => last.ic > 0

\* a call has returned with the budget overshot by a channel-0 transfer that
\* started after the instruction of its pass had used the budget up
C5_Witness ==
    /\ pc = "idle" /\ m_icount < 0
    /\ last.op = "dma1" /\ hist.done
    /\ hist.dma > 0 /\ m_icount + hist.dma <= 0

\* C6: once m_nmi_pending is set, execute_run makes no interrupt check, runs
\* no instruction and no DMA transfer before the NMI is taken: a pending NMI is
\* only ever seen between two calls or at the entry of a call, and taking it
\* vectors to 0x66 with interrupts and DMA disabled.
C6_NmiFirst ==
    /\ z.m_nmi_pending # 0 => pc \in {"idle", "entry"}
    /\ last.op = "nmi" =>
          /\ z.m_nmi_pending = 0 /\ z.PC = 102 /\ z.IFF1 = 0 /\ z.HALT = 0
          /\ ~DmaActive(z)
          /\ pc \notin {"burst", "s_ci"}

\* an NMI that found interrupts disabled and channel 0 armed was taken at the
\* entry of a call
C6_Witness ==
    /\ last.op = "nmi" /\ z.PC = 102 /\ z.m_nmi_pending = 0
    /\ z.IFF2 = 0 /\ Test(z.m_dstat, Z180_DSTAT_DE0)
    /\ m_icount = MaxBudget - 11

\* C7: while DMA is active and channel 0 is enabled in burst mode, execute_run
\* makes no interrupt check, runs no instruction and services no channel but
\* by the burst dispatch (no position of a pass but "burst" is held); after an
\* instruction that starts a burst, the burst dispatch (in this call or, the
\* budget spent, the next) comes first.
C7_BurstExcludes ==
    /\ pc \in {"s_ci", "s_op", "s_dma0", "s_dma1", "m_ci", "m_op"} =>
          ~(DmaActive(z) /\ Burst(z))
    /\ (last.op = "op" /\ DmaActive(z) /\ Burst(z)) => pc \in {"burst", "idle"}

\* an instruction of the DMA loop has started a burst, and the burst dispatch
\* is next
C7_Witness ==
    /\ last.op = "op" /\ last.at = "s_op"
    /\ DmaActive(z) /\ Burst(z) /\ pc = "burst"

\* C9: an interrupt-check point that finds the CPU halted, interrupts enabled
\* (IFF1 set, no after-EI suppression) and IRQ0 asserted and enabled takes the
\* interrupt and clears the halt flag, so that the instruction slot behind it
\* fetches; and a halted CPU with interrupts enabled and the line asserted
\* does not stay halted forever unless the line is released.
C9_HaltResume ==
    /\ [](/\ (last.op = "check" /\ last.wake) =>
                 (last.irq = Z180_INT_IRQ0 /\ z.HALT = 0 /\ pc \in {"s_op", "m_op"})
          /\ (last.op = "op" /\ hist.took) => ~last.halted)
    /\ Wakeable(z) ~> (z.HALT = 0 \/ z.m_irq_state[0] = CLEAR_LINE)

\* the halted CPU was woken by IRQ0 at a check point of the main loop
C9_Witness ==
    /\ last.op = "check" /\ last.at = "m_ci" /\ last.wake
    /\ last.irq = Z180_INT_IRQ0 /\ z.HALT = 0 /\ z.PC = 56 + Z180_INT_IRQ0

----------------------------------------------------------------------------
(* SpecReset: device_reset applied to a device in use                      *)

\* the device as the set-up of SpecInt leaves it, the MMU registers CBR, BBR
\* and CBAR written or not, the CPU registers IX, IY, SP, F and the halt flag
\* holding what the program left in them (PC: the address of its HALT)
ResetInit ==
    /\ \E r \in { [PC |-> 0, IX |-> 0, IY |-> 0, SP |-> 0, F |-> 0, HALT |-> 0],
                  [PC |-> 3, IX |-> 4660, IY |-> 1, SP |-> 65534, F |-> 255, HALT |-> 1] },
          mmu \in { << >>, << <<56, 1>>, <<57, 2>>, <<58, 132>> >> } :
           z = [Program(ResetState, IntSetup \o mmu)
                    EXCEPT !.PC = r.PC, !.IX = r.IX, !.IY = r.IY, !.SP = r.SP,
                           !.F = r.F, !.HALT = r.HALT]
    /\ pc = "idle"
    /\ m_icount = 0
    /\ last = NoObs
    /\ hist = NoHist

\* the device is reset (last.pre: the state the reset found)
ResetDevice ==
    /\ z' = device_reset(z)
    /\ last' = [NoObs EXCEPT !.op = "reset", !.pre = z]
    /\ UNCHANGED <<pc, m_icount, hist>>

ResetNext ==
    \/ IntSetInput \/ IntOp \/ IntClock \/ IntDma0 \/ IntCheck \/ ResetDevice

SpecReset == ResetInit /\ [][ResetNext]_vars

\* C11: immediately after device_reset, whatever the state before, IX and IY
\* are 0xFFFF, F is ZF, PC and SP are 0, IFF1 and IFF2 are 0, the halt flag is
\* clear, no interrupt source is pending, DE0, DE1, TDE0 and TDE1 are clear,
\* CBR and BBR are 0 and CBAR is 0xF0
C11_ResetValues ==
    last.op = "reset" =>
        /\ z.IX = 65535 /\ z.IY = 65535 /\ z.F = ZF
        /\ z.PC = 0 /\ z.SP = 0
        /\ z.IFF1 = 0 /\ z.IFF2 = 0 /\ z.HALT = 0
        /\ \A i \in 0 .. Z180_INT_MAX : z.m_int_pending[i] = 0
        /\ ~Test(z.m_dstat, Z180_DSTAT_DE0) /\ ~Test(z.m_dstat, Z180_DSTAT_DE1)
        /\ ~Test(z.m_tcr, Z180_TCR_TDE0) /\ ~Test(z.m_tcr, Z180_TCR_TDE1)
        /\ z.m_mmu_cbr = 0 /\ z.m_mmu_bbr = 0 /\ z.m_mmu_cbar = 240

\* a reset of a device whose registers all differ from their reset values:
\* an interrupt source pending, channel 0 and both timers enabled, the MMU
\* registers written
C11_Witness ==
    /\ last.op = "reset"
    /\ last.pre.IX = 4660 /\ last.pre.IY = 1 /\ last.pre.F = 255
    /\ last.pre.SP = 65534 /\ last.pre.PC = 3 /\ last.pre.HALT = 1
    /\ last.pre.IFF1 = 1 /\ last.pre.IFF2 = 1
    /\ Pending(last.pre) # {}
    /\ Test(last.pre.m_dstat, Z180_DSTAT_DE0)
    /\ Test(last.pre.m_tcr, Z180_TCR_TDE0) /\ Test(last.pre.m_tcr, Z180_TCR_TDE1)
    /\ last.pre.m_mmu_cbr = 1 /\ last.pre.m_mmu_bbr = 2 /\ last.pre.m_mmu_cbar = 132


----------------------------------------------------------------------------
(* SpecFlags: the flag tables device_start builds for the 8-bit additions  *)
(* and subtractions                                                        *)

\* SZHVC_add with an ADC half-carry test that leaves out equal low nibbles
SZHVC_add_strict(i) ==
    LET c      == i \div 65536
        oldval == (i \div 256) % 256
        newval == i % 256
        val    == newval - oldval - c
        b7(x)  == (x \div 128) % 2
        sz     == IF newval # 0 THEN (IF b7(newval) = 1 THEN SF ELSE 0) ELSE ZF
        yx     == ((newval \div 32) % 2) * YF + ((newval \div 8) % 2) * XF
        hf     == newval % 16 < oldval % 16
        cf     == IF c = 0 THEN newval < oldval ELSE newval <= oldval
        vf     == /\ (b7(val) + b7(oldval) + 1) % 2 = 1
                  /\ (b7(val) + b7(newval)) % 2 = 1
    IN  sz + yx + (IF hf THEN HF ELSE 0) + (IF cf THEN CF ELSE 0)
           + (IF vf THEN VF ELSE 0)

\* SZHVC_add[i] as device_start fills it: the entries padd writes (from index
\* 0) and those padc writes (from index 256*256), one of each per oldval and
\* newval. val is a signed int; bit 7 of the two exclusive-ors is taken from
\* the two's complement bits.
SZHVC_add(i) ==
    LET c      == i \div 65536
        oldval == (i \div 256) % 256
        newval == i % 256
        val    == newval - oldval - c
        b7(x)  == (x \div 128) % 2
        sz     == IF newval # 0 THEN (IF b7(newval) = 1 THEN SF ELSE 0) ELSE ZF
        yx     == ((newval \div 32) % 2) * YF + ((newval \div 8) % 2) * XF
        hf     == IF c = 0 THEN newval % 16 < oldval % 16
                           ELSE newval % 16 <= oldval % 16
        cf     == IF c = 0 THEN newval < oldval ELSE newval <= oldval
        vf     == /\ (b7(val) + b7(oldval) + 1) % 2 = 1
                  /\ (b7(val) + b7(newval)) % 2 = 1
    IN  sz + yx + (IF hf THEN HF ELSE 0) + (IF cf THEN CF ELSE 0)
           + (IF vf THEN VF ELSE 0)

\* SZHVC_sub[i] as device_start fills it: the entries psub and psbc write
SZHVC_sub(i) ==
    LET c      == i \div 65536
        oldval == (i \div 256) % 256
        newval == i % 256
        val    == oldval - newval - c
        b7(x)  == (x \div 128) % 2
        sz     == IF newval # 0 THEN (IF b7(newval) = 1 THEN SF ELSE 0) ELSE ZF
        yx     == ((newval \div 32) % 2) * YF + ((newval \div 8) % 2) * XF
        hf     == IF c = 0 THEN newval % 16 > oldval % 16
                           ELSE newval % 16 >= oldval % 16
        cf     == IF c = 0 THEN newval > oldval ELSE newval >= oldval
        vf     == /\ (b7(val) + b7(oldval)) % 2 = 1
                  /\ (b7(oldval) + b7(newval)) % 2 = 1
    IN  NF + sz + yx + (IF hf THEN HF ELSE 0) + (IF cf THEN CF ELSE 0)
           + (IF vf THEN VF ELSE 0)

\* the flags of a + b + c (sub = 0) or a - b - c (sub = 1) worked out from
\* the operands: sign and zero of the 8-bit result, its bits 5 and 3, carry
\* or borrow out of bit 3 and out of bit 7, overflow of the signed result
DirectFlags(sub, a, b, c) ==
    LET sg(x) == IF x >= 128 THEN x - 256 ELSE x
        full  == IF sub = 0 THEN a + b + c ELSE a - b - c
        low   == IF sub = 0 THEN (a % 16) + (b % 16) + c
                            ELSE (a % 16) - (b % 16) - c
        sres  == IF sub = 0 THEN sg(a) + sg(b) + c ELSE sg(a) - sg(b) - c
        r     == full % 256
    IN  (IF r >= 128 THEN SF ELSE 0) + (IF r = 0 THEN ZF ELSE 0)
        + ((r \div 32) % 2) * YF + ((r \div 8) % 2) * XF
        + (IF low > 15 \/ low < 0 THEN HF ELSE 0)
        + (IF sres > 127 \/ sres < -128 THEN VF ELSE 0)
        + (IF sub = 1 THEN NF ELSE 0)
        + (IF full > 255 \/ full < 0 THEN CF ELSE 0)

\* the two 8-bit operands of the instruction
FlagsInit ==
    /\ z = ResetState
    /\ pc = "idle"
    /\ m_icount = 0
    /\ \E a \in Byte, b \in Byte : last = [NoObs EXCEPT !.a = a, !.b = b]
    /\ hist = NoHist

\* ADD/ADC (sub = 0) or SUB/SBC (sub = 1) of the operands with carry-in c:
\* the flags are read from the table at (c << 16) | (a << 8) | result
FlagsOp ==
    \E sub \in 0 .. 1, c \in 0 .. 1 :
        LET res == (IF sub = 0 THEN last.a + last.b + c
                               ELSE last.a - last.b - c) % 256
            key == c * 65536 + last.a * 256 + res
        IN  /\ last' = [last EXCEPT !.op = IF sub = 0 THEN "add" ELSE "sub",
                                    !.cy = c, !.ret = res,
                                    !.f = IF sub = 0 THEN SZHVC_add(key)
                                                     ELSE SZHVC_sub(key)]
            /\ UNCHANGED <<z, pc, m_icount, hist>>

SpecFlags == FlagsInit /\ [][FlagsOp]_vars

\* C12: for all 8-bit operands a and b and both carry-in values, the entry
\* of SZHVC_add or SZHVC_sub the operation reads equals the sign, zero,
\* half-carry, overflow and carry flags worked out from the operands, with N
\* set for a subtraction and bits 3 and 5 those of the result
C12_FlagTables ==
    /\ last.op = "add" => last.f = DirectFlags(0, last.a, last.b, last.cy)
    /\ last.op = "sub" => last.f = DirectFlags(1, last.a, last.b, last.cy)

\* an ADC with carry-in whose low nibbles add up to a carry, the low nibble
\* of the result being that of the accumulator
C12_Witness ==
    /\ last.op = "add" /\ last.cy = 1 /\ last.a = 31 /\ last.b = 15
    /\ last.ret = 47 /\ last.f = HF + YF + XF


----------------------------------------------------------------------------
(* SpecCount0: channel 0 armed with BCR0 = 0 and dispatched until its      *)
(* terminal count                                                          *)

\* memory to memory with both addresses counting up, no wait states, BCR0
\* written with 0, in cycle-steal or in burst mode, armed
CountInit ==
    /\ \E mmod \in {0, Z180_DMODE_MMOD} :
           z = Program(ResetState, DmaSetup(0, mmod, 0, 6) \o << <<48, 96>> >>)
    /\ pc = "idle"
    /\ m_icount = 0
    /\ last = NoObs
    /\ hist = NoHist

\* one z180_dma0 dispatch, with the budget of cycle stealing or a larger one
\* (hist.x0: the bytes transferred since the channel was armed)
CountDispatch0 ==
    \E max \in {6, MaxBudget} :
        \E r \in { z180_dma0(z, max, RunIo) } :
            /\ z' = r.st
            /\ last' = [NoObs EXCEPT !.op = "dma0", !.max = max, !.xfers = r.xfers,
                                     !.cycles = r.cycles, !.pre = z]
            /\ hist' = [hist EXCEPT !.x0 = @ + r.xfers]
            /\ UNCHANGED <<pc, m_icount>>

SpecCount0 == CountInit /\ [][CountDispatch0]_vars

\* C13: a BCR0 of 0 stands for 65536 bytes: the terminal count (DE0 cleared
\* by a dispatch) is reached when exactly 65536 bytes have been transferred
\* and not before, and a single cycle-steal transfer starting from BCR0 = 0
\* leaves BCR0 = 0xFFFF with the channel still enabled
C13_ZeroIs65536 ==
    /\ Test(z.m_dstat, Z180_DSTAT_DE0) => hist.x0 < 65536
    /\ ~Test(z.m_dstat, Z180_DSTAT_DE0) => hist.x0 = 65536
    /\ (/\ last.op = "dma0" /\ last.pre.m_dma_bcr[0] = 0
        /\ Test(last.pre.m_dstat, Z180_DSTAT_DE0)
        /\ ~Test(last.pre.m_dmode, Z180_DMODE_MMOD))
           => /\ last.xfers = 1
              /\ z.m_dma_bcr[0] = 65535
              /\ Test(z.m_dstat, Z180_DSTAT_DE0)

\* the terminal count of a cycle-steal transfer that began with BCR0 = 0
C13_Witness ==
    /\ last.op = "dma0" /\ ~Test(z.m_dmode, Z180_DMODE_MMOD)
    /\ last.pre.m_dma_bcr[0] = 1 /\ Test(last.pre.m_dstat, Z180_DSTAT_DE0)
    /\ z.m_dma_bcr[0] = 0 /\ ~Test(z.m_dstat, Z180_DSTAT_DE0)
    /\ hist.x0 = 65536


----------------------------------------------------------------------------
(* SpecMask: the registers that have a mask, written through               *)
(* z180_writecontrol                                                       *)

\* a write of all zeros or all ones to STAT0, STAT1, CNTR, TCR, ASEXT0,
\* ASEXT1, FRC, CMR, the bank bytes of SAR0, DAR0, MAR1 and IAR1, DSTAT,
\* DMODE, IL, ITC, RCR, OMCR or IOCR
MaskWrite ==
    \E port \in {4, 5, 10, 16, 18, 19, 24, 30, 34, 37, 42, 45, 48, 49, 51, 52, 54, 62, 63},
       data \in {0, 255} :
        /\ hist.writes < MaxWrites
        /\ z' = z180_writecontrol(z, port, data)
        /\ last' = [NoObs EXCEPT !.op = "write", !.port = port, !.data = data]
        /\ hist' = [hist EXCEPT !.writes = @ + 1]
        /\ UNCHANGED <<pc, m_icount>>

SpecMask == IoInit /\ [][MaskWrite]_vars

\* C14: after any sequence of z180_writecontrol calls from reset, no register
\* that has a mask holds a bit outside it: CNTR 0xF7, ASEXT0 0x7F, ASEXT1
\* 0x1F, CMR 0xC0, DSTAT 0xFD, DMODE 0x3E, IL 0xE0, ITC 0xC7, RCR 0xC3, OMCR
\* 0xE0, IOCR 0xE0, the bank bytes of SAR0, DAR0 and MAR1 0x0F, of IAR1 0xCF
C14_WritesMasked ==
    /\ BitClr(z.m_csio_cntr, Z180_CNTR_MASK) = 0
    /\ BitClr(z.m_asci_ext[0], Z180_ASEXT0_MASK) = 0
    /\ BitClr(z.m_asci_ext[1], Z180_ASEXT1_MASK) = 0
    /\ BitClr(z.m_cmr, Z180_CMR_MASK) = 0
    /\ BitClr(z.m_dstat, Z180_DSTAT_MASK) = 0
    /\ BitClr(z.m_dmode, Z180_DMODE_MASK) = 0
    /\ BitClr(z.m_il, Z180_IL_MASK) = 0
    /\ BitClr(z.m_itc, Z180_ITC_MASK) = 0
    /\ BitClr(z.m_rcr, Z180_RCR_MASK) = 0
    /\ BitClr(z.m_omcr, Z180_OMCR_MASK) = 0
    /\ BitClr(z.m_iocr, Z180_IOCR_MASK) = 0
    /\ BitClr(H2(z.m_dma_sar0), 15) = 0
    /\ BitClr(H2(z.m_dma_dar0), 15) = 0
    /\ BitClr(H2(z.m_dma_mar1), 15) = 0
    /\ BitClr(H2(z.m_dma_iar1), 207) = 0


----------------------------------------------------------------------------
(* SpecSteal: execute_run with the channels set up in every kind of mode,  *)
(* the request lines left as they are during the calls                     *)

\* as RunInit, but channel 0 is set up from memory to memory, from I/O to
\* memory (DREQ0 is never asserted) or in a reserved mode; DREQ1, edge-sensed
\* (DCNTL), is asserted or not, channel 1 moving from I/O to memory; one more
\* program arms both channels at once
StealInit ==
    /\ \E prog \in RunPrograms \cup
                     { << [op |-> "OUT0", port |-> 48, data |-> 192],
                          [op |-> "EI", port |-> 0, data |-> 0],
                          [op |-> "HALT", port |-> 0, data |-> 0] >> },
          mode \in {0, 12, 56}, mmod \in {0, Z180_DMODE_MMOD},
          dreq1 \in {CLEAR_LINE, ASSERT_LINE} :
            z = [execute_set_input(Program(ResetState, DmaSetup(mode, mmod, MaxCount, 242)),
                                   "DREQ1", dreq1) EXCEPT !.prog = prog]
    /\ pc = "idle"
    /\ m_icount = 0
    /\ last = NoObs
    /\ hist = NoHist

SpecSteal == StealInit /\ [][RunDriver]_vars

\* the scheduler keeps calling execute_run, and a call runs to its end
SpecStealFair == SpecSteal /\ WF_vars(RunDriver)

----------------------------------------------------------------------------
(* The cycle budget of a channel-0 dispatch (SpecDma0)                     *)

----------------------------------------------------------------------------
(* Termination of execute_run (SpecStealFair)                              *)

\* C17: whatever the budget and the register state (channel 0 in a reserved
\* mode or waiting for a request that never comes, the CPU halted), every
\* pass of the loops of execute_run lowers m_icount by at least 3, and every
\* call of execute_run returns
C17_RunReturns ==
    /\ [](hist.done => hist.cost >= 3)
    /\ (pc # "idle") ~> (pc = "idle")

\* a call has returned after a pass of the DMA loop with the CPU halted and
\* channel 0 enabled in a reserved mode, in which no byte is ever moved
C17_Witness ==
    /\ pc = "idle" /\ m_icount <= 0
    /\ last.op = "dma1" /\ hist.done /\ hist.halt /\ hist.cost >= 3
    /\ z.HALT = 1 /\ Test(z.m_dstat, Z180_DSTAT_DE0)
    /\ Dma0Kind(Dma0Mode(z)) = "rsv" /\ z.m_dma_bcr[0] = MaxCount


----------------------------------------------------------------------------
(* The NMI latch (SpecRun)                                                 *)

\* C18: m_nmi_pending is set exactly when the NMI line goes from CLEAR to
\* another state, whatever IFF1 and IFF2 are; it is cleared by the NMI
\* service alone, which needs it set: a line held asserted over several calls
\* of execute_run gives one NMI, and the next NMI needs the line to go back
\* to CLEAR and be asserted again
C18_NmiEdge ==
    [][ /\ (z.m_nmi_state = CLEAR_LINE /\ z'.m_nmi_state # CLEAR_LINE)
               => z'.m_nmi_pending = 1
        /\ (z.m_nmi_pending = 0 /\ z'.m_nmi_pending = 1)
               => (z.m_nmi_state = CLEAR_LINE /\ z'.m_nmi_state # CLEAR_LINE)
        /\ (z.m_nmi_pending = 1 /\ z'.m_nmi_pending = 0) <=> (last'.op = "nmi")
      ]_vars

\* the line is still asserted, its NMI was serviced by an earlier call (PC is
\* in the NMI handler), and the call under way began without servicing one
\* (its budget is untouched), with the interrupts disabled by the service
C18_Witness ==
    /\ z.m_nmi_state = ASSERT_LINE /\ z.m_nmi_pending = 0
    /\ z.PC = 102 /\ z.IFF1 = 0
    /\ pc = "m_op" /\ m_icount = MaxBudget


----------------------------------------------------------------------------
(* The effects of the NMI service (SpecRun)                                *)

----------------------------------------------------------------------------
(* SpecDone: both channels armed for n bytes, with and without their       *)
(* interrupt-enable bits, with interrupts enabled and disabled             *)

\* the program has set both channels up for n bytes, written DSTAT with DE0
\* and DE1 and a choice of DIE0 and DIE1, and has or has not executed EI
DoneInit ==
    /\ \E mode \in {0, 12, 56}, mmod \in {0, Z180_DMODE_MMOD}, n \in 1 .. MaxCount,
          dcntl \in {240, 6}, die \in {0, Z180_DSTAT_DIE0, Z180_DSTAT_DIE1, 12},
          iff \in {0, 1} :
            /\ z = [Program(ResetState, DmaSetup(mode, mmod, n, dcntl) \o <<<<48, 192 + die>>>>)
                        EXCEPT !.IFF1 = iff, !.IFF2 = iff]
            /\ hist = [NoHist EXCEPT !.count = n]
    /\ pc = "idle"
    /\ m_icount = 0
    /\ last = NoObs

SpecDone == DoneInit /\ [][DmaSetDreq0 \/ DmaSetDreq1 \/ DmaDispatch0 \/ DmaDispatch1]_vars

\* the dispatch just made raised the completion flag of channel n
FlagRaised(n) ==
    /\ z.m_int_pending[Z180_INT_DMA0 + n] = 1
    /\ last.pre.m_int_pending[Z180_INT_DMA0 + n] = 0

\* C20: a dispatch of channel n sets the pending flag of its completion
\* interrupt if and only if it moved the last of the programmed bytes (the
\* remaining count reached zero) while DIEn and IFF1 were set
C20_CompletionFlag ==
    /\ last.op = "dma0" =>
          (FlagRaised(0) <=> /\ last.xfers > 0 /\ hist.x0 = hist.count
                             /\ Test(last.pre.m_dstat, Z180_DSTAT_DIE0)
                             /\ last.pre.IFF1 # 0)
    /\ last.op = "dma1" =>
          (FlagRaised(1) <=> /\ last.xfers > 0 /\ hist.x1 = hist.count
                             /\ Test(last.pre.m_dstat, Z180_DSTAT_DIE1)
                             /\ last.pre.IFF1 # 0)

\* C20 as the code has it: channel 0 raises its flag with exactly the
\* dispatch that brings BCR0 to zero, which is the one that moves the last
\* programmed byte, and only with DIE0 and IFF1 set; channel 1 never raises
\* its flag, never clears DE1 and never changes BCR1
C20_AsCoded ==
    /\ last.op = "dma0" =>
        /\ FlagRaised(0) <=> /\ last.xfers > 0 /\ z.m_dma_bcr[0] = 0
                             /\ Test(last.pre.m_dstat, Z180_DSTAT_DIE0)
                             /\ last.pre.IFF1 # 0
        /\ (last.xfers > 0 /\ z.m_dma_bcr[0] = 0) <=> (last.xfers > 0 /\ hist.x0 = hist.count)
    /\ z.m_int_pending[Z180_INT_DMA1] = 0
    /\ Test(z.m_dstat, Z180_DSTAT_DE1)
    /\ z.m_dma_bcr[1] = hist.count

\* channel 0 moved its last byte with DIE0 and IFF1 set: the flag is up
C20_Channel0Reached ==
    /\ last.op = "dma0" /\ last.xfers > 0 /\ hist.x0 = hist.count /\ hist.count > 1
    /\ FlagRaised(0) /\ ~Test(z.m_dstat, Z180_DSTAT_DE0)


----------------------------------------------------------------------------
(* Channel 0 and its request line (SpecDma0)                               *)

\* C21: in the modes between I/O and memory a dispatch of channel 0 moves
\* a unit (and changes count, addresses and memory) only with DREQ0
\* asserted; with DMS0 set the unit de-asserts DREQ0 and is the only one of
\* the dispatch, in burst mode too
C21_Dreq0Gate ==
    (last.op = "dma0" /\ Dma0Kind(Dma0Mode(last.pre)) \in {"im", "mi"}) =>
        /\ ~Test(last.pre.m_iol, Z180_DREQ0) =>
              /\ last.xfers = 0
              /\ z.m_dma_bcr = last.pre.m_dma_bcr
              /\ z.m_dma_sar0 = last.pre.m_dma_sar0
              /\ z.m_dma_dar0 = last.pre.m_dma_dar0
              /\ z.mem = last.pre.mem
        /\ (last.xfers > 0 /\ Test(last.pre.m_dcntl, Z180_DCNTL_DMS0)) =>
              /\ last.xfers = 1
              /\ ~Test(z.m_iol, Z180_DREQ0)

\* a burst from I/O to memory with two bytes to go, DREQ0 asserted and
\* edge-sensed, and budget for all of them: one byte moved, DREQ0 released
C21_Witness ==
    /\ last.op = "dma0" /\ Dma0Kind(Dma0Mode(last.pre)) = "im"
    /\ Test(last.pre.m_dmode, Z180_DMODE_MMOD)
    /\ Test(last.pre.m_dcntl, Z180_DCNTL_DMS0)
    /\ Test(last.pre.m_iol, Z180_DREQ0)
    /\ last.pre.m_dma_bcr[0] >= 2 /\ last.max = 12 * MaxCount
    /\ last.xfers = 1 /\ z.m_dma_bcr[0] = last.pre.m_dma_bcr[0] - 1
    /\ ~Test(z.m_iol, Z180_DREQ0)


----------------------------------------------------------------------------
(* One dispatch of channel 1 (SpecDma1)                                    *)

\* C22: z180_dma1 moves at most one byte per call; without DREQ1 or DE1 it
\* returns 0 and changes nothing; otherwise it moves one byte between
\* memory at MAR1 and the I/O address IAR1, in the direction of DIM1, MAR1
\* going up or down by one with DIM0, IAR1 and the registers of channel 0
\* staying as they were, for 6 cycles plus the wait states
C22_Dma1Dispatch ==
    last.op = "dma1" =>
        LET p   == last.pre
            dim == p.m_dcntl % 4
        IN  /\ last.xfers <= 1
            /\ (~Test(p.m_iol, Z180_DREQ1) \/ ~Test(p.m_dstat, Z180_DSTAT_DE1)) =>
                  z = p /\ last.cycles = 0 /\ last.xfers = 0
            /\ (Test(p.m_iol, Z180_DREQ1) /\ Test(p.m_dstat, Z180_DSTAT_DE1)) =>
                  /\ last.xfers = 1
                  /\ last.cycles = 6 + memory_wait_states(p) + last.ext
                  /\ last.port = p.m_dma_iar1 % 65536
                  /\ z.m_dma_iar1 = p.m_dma_iar1
                  /\ z.m_dma_mar1 = U32(p.m_dma_mar1 + (IF dim % 2 = 0 THEN 1 ELSE -1))
                  /\ dim < 2 => last.data = read_byte(p, p.m_dma_mar1) /\ z.mem = p.mem
                  /\ dim >= 2 => last.data = -1 /\ z.mem = write_byte(p, p.m_dma_mar1, 90).mem
                  /\ z.m_dma_sar0 = p.m_dma_sar0 /\ z.m_dma_dar0 = p.m_dma_dar0
                  /\ z.m_dma_bcr[0] = p.m_dma_bcr[0]

\* the second byte of a transfer from I/O to memory with MAR1 downwards: it
\* lands below the first and MAR1 is two below where it started
C22_Witness ==
    /\ last.op = "dma1" /\ last.xfers = 1 /\ hist.x1 = 2
    /\ last.pre.m_dcntl % 4 = 3
    /\ last.port = 9 /\ last.cycles = 7
    /\ z.m_dma_mar1 = 4 /\ z.mem[5] = 90 /\ z.mem[6] = 90


----------------------------------------------------------------------------
(* SpecMmu: the MMU registers written through the register bank, and       *)
(* addresses translated in between                                         *)

\* the program writes CBR, BBR or CBAR; the split points written are 15 (the
\* reset value), 8, 4 and 0, with the low nibble of CBAR zero
MmuWrite ==
    \E port \in {56, 57, 58} :
        \E data \in IF port = 58 THEN {240, 128, 64, 0} ELSE {0, 1, 32, 255} :
            /\ z' = z180_writecontrol(z, port, data)
            /\ last' = [NoObs EXCEPT !.op = "write", !.port = port, !.data = data]
            /\ UNCHANGED <<pc, m_icount, hist>>

\* an address of the program or of the I/O space is translated: the ends of
\* the logical space and the addresses at and next to the split points
MmuTranslate ==
    \E spacenum \in {"AS_PROGRAM", "AS_IO"},
       address \in {0, 1, 16383, 16384, 16385, 32767, 32768, 32769,
                    61439, 61440, 61441, 65535} :
        /\ last' = [NoObs EXCEPT !.op = spacenum, !.port = address,
                                 !.ret = memory_translate(z, spacenum, address)]
        /\ UNCHANGED <<z, pc, m_icount, hist>>

SpecMmu == IoInit /\ [][MmuWrite \/ MmuTranslate]_vars

\* C23: with split point K = CBAR's high nibble, BBR = B and CBR = C, a
\* program address in a page below K translates to itself plus B * 4096,
\* one in a page from K on to itself plus C * 4096 (in 20 bits); the page
\* table agrees with the three registers after every write; with the reset
\* values every address translates to itself; I/O addresses are not
\* translated
C23_MmuRouting ==
    LET K == z.m_mmu_cbar \div 16
        Off(a) == IF a \div 4096 >= K THEN z.m_mmu_cbr ELSE z.m_mmu_bbr
        Phys(a) == (a + Off(a) * 4096) % 1048576
    IN  /\ \A page \in 0 .. 15 : z.m_mmu[page] = Phys(page * 4096)
        /\ last.op = "AS_PROGRAM" => last.ret = Phys(last.port)
        /\ last.op = "AS_IO" => last.ret = last.port
        /\ (z.m_mmu_cbr = 0 /\ z.m_mmu_bbr = 0 /\ last.op = "AS_PROGRAM")
              => last.ret = last.port

\* split point 8, BBR = 0x20, CBR = 0xFF: the first address of the common
\* area wraps round the 20 bits to 0x07000
C23_Witness ==
    /\ z.m_mmu_cbar = 128 /\ z.m_mmu_bbr = 32 /\ z.m_mmu_cbr = 255
    /\ last.op = "AS_PROGRAM" /\ last.port = 32768 /\ last.ret = 28672


----------------------------------------------------------------------------
(* The reserved modes of channel 0 (SpecDma0)                              *)

\* C24: a dispatch of the enabled channel 0 in one of the reserved SM/DM
\* patterns 0x28, 0x2C, 0x38, 0x3C moves nothing, leaves memory, SAR0, DAR0
\* and BCR0 as they were, and costs 6 cycles for each turn of its loop: one
\* turn in cycle-steal mode, in burst mode as many as the count, or as it
\* takes to pass the budget
C24_ReservedModes ==
    (/\ last.op = "dma0"
     /\ BitAnd(last.pre.m_dmode, 60) \in {40, 44, 56, 60}
     /\ Test(last.pre.m_dstat, Z180_DSTAT_DE0)) =>
        LET p     == last.pre
            count == IF p.m_dma_bcr[0] = 0 THEN 65536 ELSE p.m_dma_bcr[0]
            turns == IF Test(p.m_dmode, Z180_DMODE_MMOD)
                     THEN Min({count, last.max \div 6 + 1}) ELSE 1
        IN  /\ last.xfers = 0
            /\ z.mem = p.mem
            /\ z.m_dma_sar0 = p.m_dma_sar0
            /\ z.m_dma_dar0 = p.m_dma_dar0
            /\ z.m_dma_bcr = p.m_dma_bcr
            /\ last.cycles = 6 * turns

\* a burst in the reserved pattern 0x38 with three bytes programmed and
\* budget for all: three turns, 18 cycles, the channel still enabled
C24_Witness ==
    /\ last.op = "dma0" /\ BitAnd(last.pre.m_dmode, 60) = 56
    /\ Test(last.pre.m_dmode, Z180_DMODE_MMOD)
    /\ last.pre.m_dma_bcr[0] = 3 /\ last.max = 12 * MaxCount
    /\ last.cycles = 18 /\ z.m_dma_bcr[0] = 3
    /\ Test(z.m_dstat, Z180_DSTAT_DE0)


----------------------------------------------------------------------------
(* The external I/O space and the register bank (SpecIo)                   *)

\* C25: a call of z180_readcontrol or z180_writecontrol makes exactly one
\* access of the external I/O space, at the port as the caller gave it and,
\* for a write, with the caller's data; the external handler finds the
\* device as it was before the call, the register's value or side effect
\* coming afterwards; a read of an internal register returns the register,
\* not what the external space answered
C25_ExternalFirst ==
    last.op \in {"read", "write"} =>
        /\ Len(last.bus) = 1
        /\ last.bus[1].kind = last.op
        /\ last.bus[1].port = last.port
        /\ last.bus[1].seen = last.pre
        /\ last.op = "write" =>
              /\ last.bus[1].data = last.data
              /\ z = z180_writecontrol(last.bus[1].seen, last.port, last.data)
        /\ last.op = "read" =>
              /\ last.bus[1].data = last.ext
              /\ InWindow(last.pre, last.port) =>
                    last.ret = z180_readcontrol(last.pre, last.port,
                                                [byte |-> 255 - last.ext, frc |-> 0]).data

\* IOCR written at port 0x7F while the bank lies at 0x40: the external space
\* saw port 0x7F and the bank at 0x40, and the bank has moved to 0x80
C25_Witness ==
    /\ last.op = "write" /\ last.port = 127 /\ last.data = 128
    /\ Len(last.bus) = 1 /\ last.bus[1].port = 127
    /\ last.bus[1].seen.m_iocr = 64 /\ z.m_iocr = 128


----------------------------------------------------------------------------
(* The ports of the register bank that have no register (SpecIo)           *)

\* C26: a read that the bank decodes as port 0x11, 0x19, 0x35, 0x37, 0x3B,
\* 0x3C or 0x3D returns 0xFF, whatever was written before and whatever the
\* external I/O space answered, and changes nothing; a write to such a
\* port changes no register
C26_NoRegister ==
    LET B == BitAnd(last.pre.m_iocr, 192)
        p == IF BitAnd(last.port, B) = B THEN last.port - B ELSE last.port
    IN  (last.op \in {"read", "write"} /\ p \in {17, 25, 53, 55, 59, 60, 61}) =>
            /\ z = last.pre
            /\ last.op = "read" => last.ret = 255

\* port 0x11 of the bank moved to 0x40, read at 0x51: the external space
\* answered 0x5A, the read returns 0xFF
C26_Witness ==
    /\ last.op = "read" /\ last.port = 81 /\ last.pre.m_iocr = 64
    /\ last.ext = 90 /\ last.ret = 255


----------------------------------------------------------------------------
(* SpecState: the state-inspection boundary, between calls of execute_run  *)
(* that run the guest program                                              *)

\* a state_export that knows every entry
state_export_any(s, index) == [st |-> s, fatal |-> FALSE]

\* z180_device::state_import: the entry's variable holds the new value
\* already; z180_write_iolines copies the input lines (of the lines the
\* device state tracks: DREQ0 and DREQ1)
state_import(s, index) ==
    CASE index = "Z180_R" ->
            [st |-> [s EXCEPT !.R = BitAnd(s.m_rtemp, 127), !.R2 = BitAnd(s.m_rtemp, 128)],
             fatal |-> FALSE]
      [] index \in {"Z180_CBR", "Z180_BBR", "Z180_CBAR"} ->
            [st |-> z180_mmu(s), fatal |-> FALSE]
      [] index = "Z180_IOLINES" ->
            [st |-> [s EXCEPT !.m_iol = BitClr(s.m_iol, Z180_DREQ0 + Z180_DREQ1)
                                          + BitAnd(s.m_ioltemp, Z180_DREQ0 + Z180_DREQ1)],
             fatal |-> FALSE]
      [] OTHER -> [st |-> s, fatal |-> TRUE]

\* z180_device::state_export
state_export(s, index) ==
    CASE index = "Z180_R" ->
            [st |-> [s EXCEPT !.m_rtemp = BitAnd(s.R, 127) + BitAnd(s.R2, 128)],
             fatal |-> FALSE]
      [] index = "Z180_IOLINES" ->
            [st |-> [s EXCEPT !.m_ioltemp = s.m_iol], fatal |-> FALSE]
      [] OTHER -> [st |-> s, fatal |-> TRUE]

\* the state interface imports or exports an entry between two calls of
\* execute_run: for an import it has stored the value in the entry's
\* variable (m_rtemp, m_ioltemp, m_mmu_cbr, m_mmu_bbr, m_mmu_cbar); the
\* entries of PC and TCR have no import or export, a request naming them
\* breaks the contract; a fatal error ends the emulation; the value imported
\* is 0, which changes CBAR and the page table and drives the DREQ lines low
StateAccess ==
    \E dir \in {"import", "export"},
       index \in {"Z180_R", "Z180_IOLINES", "Z180_CBR", "Z180_BBR", "Z180_CBAR",
                  "Z180_PC", "Z180_TCR"},
       value \in {0} :
        LET s == IF dir = "export" THEN z
                 ELSE CASE index = "Z180_R"       -> [z EXCEPT !.m_rtemp = value % 256]
                        [] index = "Z180_IOLINES" -> [z EXCEPT !.m_ioltemp = value]
                        [] index = "Z180_CBR"     -> [z EXCEPT !.m_mmu_cbr = value % 256]
                        [] index = "Z180_BBR"     -> [z EXCEPT !.m_mmu_bbr = value % 256]
                        [] index = "Z180_CBAR"    -> [z EXCEPT !.m_mmu_cbar = value % 256]
                        [] OTHER                  -> z
            r == IF dir = "export" THEN state_export(s, index) ELSE state_import(s, index)
        IN  /\ pc = "idle"
            /\ z' = r.st
            /\ pc' = IF r.fatal THEN "fatal" ELSE "idle"
            /\ last' = [NoObs EXCEPT !.op = dir, !.at = index, !.data = value]
            /\ UNCHANGED <<m_icount, hist>>

\* the guest is the program that arms channel 0 from the main loop
StateInit ==
    /\ \E prog \in {q \in RunPrograms : Len(q) = 3}, mmod \in {0, Z180_DMODE_MMOD} :
            z = [Program(ResetState, DmaSetup(0, mmod, MaxCount, 240))
                     EXCEPT !.prog = prog, !.SP = MemSize]
    /\ pc = "idle"
    /\ m_icount = 0
    /\ last = NoObs
    /\ hist = NoHist

SpecState == StateInit /\ [][StateAccess \/ RunSetInput \/ RunDriver]_vars

\* C27: the emulation ends in a fatal error exactly with a state_import
\* naming an entry other than R, CBR, BBR, CBAR and IOLINES or a
\* state_export naming one other than R and IOLINES; no step of the guest
\* (an input line changing, execute_run with its instructions, register
\* accesses, DMA and timers) ends in it
C27_FatalOnlyAtInspection ==
    /\ pc = "fatal" <=>
          \/ /\ last.op = "import"
             /\ last.at \notin {"Z180_R", "Z180_CBR", "Z180_BBR", "Z180_CBAR", "Z180_IOLINES"}
          \/ /\ last.op = "export"
             /\ last.at \notin {"Z180_R", "Z180_IOLINES"}
    /\ last.op \notin {"import", "export"} => pc # "fatal"

\* an export of CBAR, after the guest ran and an import of CBAR went
\* through: CBAR has an import only, the export is fatal
C27_Witness ==
    /\ pc = "fatal" /\ last.op = "export" /\ last.at = "Z180_CBAR"
    /\ z.PC > 0 /\ z.m_mmu_cbar = 0


----------------------------------------------------------------------------
(* The clocking of the timers (SpecTimer)                                  *)

\* C28: over a handle_io_timers call of c T-states the accumulator goes
\* from m_timer_cnt to (m_timer_cnt + c) modulo 20, staying in 0 .. 19, and
\* the timers are ticked once for every 20 it passes; a tick reloads an
\* enabled counter that is 0 from RLDRn and sets TIFn, takes a non-zero one
\* down by 1 and leaves TIFn; a timer that is not enabled keeps its
\* counter and TIFn, and without a tick nothing but the accumulator changes
C28_TimerClocking ==
    [][ /\ z.m_timer_cnt \in 0 .. 19 /\ z'.m_timer_cnt \in 0 .. 19
        /\ last'.op = "clock" =>
            LET k == (z.m_timer_cnt + last'.cycles) \div 20
            IN  /\ z'.m_timer_cnt = (z.m_timer_cnt + last'.cycles) % 20
                /\ k \in {0, 1}
                /\ k = 0 => z' = [z EXCEPT !.m_timer_cnt = z'.m_timer_cnt]
                /\ \A n \in 0 .. 1 :
                      IF k = 1 /\ Test(z.m_tcr, IF n = 0 THEN Z180_TCR_TDE0 ELSE Z180_TCR_TDE1)
                      THEN IF z.m_tmdr_value[n] = 0
                           THEN /\ z'.m_tmdr_value[n] = z.m_rldr[n]
                                /\ Tif(z'.m_tcr, n)
                           ELSE /\ z'.m_tmdr_value[n] = z.m_tmdr_value[n] - 1
                                /\ Tif(z'.m_tcr, n) = Tif(z.m_tcr, n)
                      ELSE /\ z'.m_tmdr_value[n] = z.m_tmdr_value[n]
                           /\ Tif(z'.m_tcr, n) = Tif(z.m_tcr, n)
      ]_vars

\* two calls of 10 T-states made a tick between them, which took the
\* running timer 0 from 2 to 1 and left the stopped timer 1 alone
C28_Witness ==
    /\ last.op = "clock" /\ last.cycles = 10 /\ last.data = 1
    /\ Test(z.m_tcr, Z180_TCR_TDE0) /\ ~Test(z.m_tcr, Z180_TCR_TDE1)
    /\ z.m_rldr[0] = 2 /\ z.m_tmdr_value[0] = 1 /\ ~Tif(z.m_tcr, 0)
    /\ z.m_timer_cnt = 0


----------------------------------------------------------------------------
(* SpecLatch: the timers, started and stopped through TCR and clocked,     *)
(* while the program reads TCR and the two bytes of the counters           *)

\* the program reads TCR or the low or the high byte of the counter of
\* timer n (last.data: hist.hi of the timer before the read; a read leaves
\* the counters alone)
TimerRead ==
    \E n \in 0 .. 1, reg \in {"tcr", "tmdrl", "tmdrh"} :
        LET port == IF reg = "tcr" THEN 16 ELSE TimerPorts(n)[reg]
            tde  == IF n = 0 THEN Z180_TCR_TDE0 ELSE Z180_TCR_TDE1
            r    == z180_readcontrol(z, port, [byte |-> 0, frc |-> 0])
        IN  /\ z' = r.st
            /\ last' = [NoObs EXCEPT !.op = "read", !.port = port, !.ret = r.data,
                                     !.data = hist.hi[n], !.tcr = z.m_tcr]
            /\ hist' = [hist EXCEPT !.hi[n] =
                            IF reg = "tmdrl"
                            THEN IF Test(z.m_tcr, tde) THEN Hi(z.m_tmdr_value[n]) ELSE -1
                            ELSE IF reg = "tmdrh" THEN -2 ELSE @]
            /\ UNCHANGED <<pc, m_icount>>

\* timer 1, with the reload value 0, was enabled, overflowed at its first
\* tick and was stopped with TIF1 up; timer 0 has the reload value 0x0100
\* and is started and stopped from here on
LatchInit ==
    /\ z = Program(handle_io_timers(Program(ResetState,
                << <<14, 0>>, <<15, 1>>, <<22, 0>>, <<23, 0>>, <<16, 2>> >>), 20),
                << <<16, 0>> >>)
    /\ pc = "idle"
    /\ m_icount = 0
    /\ last = NoObs
    /\ hist = NoHist

SpecLatch ==
    LatchInit /\ [][\/ TimerWriteTcr /\ ~Test(z'.m_tcr, Z180_TCR_TDE1)
                    \/ TimerClock /\ last'.cycles = 20
                    \/ TimerRead]_vars

\* C29: a high-byte read of the counter of timer n that follows a low-byte
\* read made while the timer was enabled returns the high byte the counter
\* had at that low-byte read, whatever ticked in between; a high-byte read
\* that follows a high-byte read returns the high byte the counter has
C29_ReadLatch ==
    \A n \in 0 .. 1 :
        (last.op = "read" /\ last.port = TimerPorts(n).tmdrh) =>
            /\ last.data >= 0 => last.ret = last.data
            /\ last.data = -2 => last.ret = Hi(z.m_tmdr_value[n])


\* C30: a read of TCR, TMDRnL or TMDRnH that finds the "already read" flag
\* of timer n fresh sets it and leaves TIFn as it is, one that finds it set
\* clears TIFn and the flag; a write, and a read of a data register of the
\* other timer, leave TIFn and the flag as they are
C30_AlternateRead ==
    [][ \A n \in 0 .. 1 :
          LET tif  == IF n = 0 THEN Z180_TCR_TIF0 ELSE Z180_TCR_TIF1
              mine == last'.port \in {16, TimerPorts(n).tmdrl, TimerPorts(n).tmdrh}
          IN  /\ (last'.op = "read" /\ mine) =>
                    IF z.m_read_tcr_tmdr[n] = 0
                    THEN /\ z'.m_read_tcr_tmdr[n] = 1
                         /\ Test(z'.m_tcr, tif) = Test(z.m_tcr, tif)
                    ELSE /\ z'.m_read_tcr_tmdr[n] = 0
                         /\ ~Test(z'.m_tcr, tif)
              /\ (last'.op = "write" \/ (last'.op = "read" /\ ~mine)) =>
                    /\ z'.m_read_tcr_tmdr[n] = z.m_read_tcr_tmdr[n]
                    /\ Test(z'.m_tcr, tif) = Test(z.m_tcr, tif)
      ]_vars

\* a second read, of TMDR0H, has cleared TIF0 and left TIF1 up
C30_Witness ==
    /\ last.op = "read" /\ last.port = 13
    /\ Test(last.tcr, Z180_TCR_TIF0) /\ ~Test(z.m_tcr, Z180_TCR_TIF0)
    /\ Test(last.tcr, Z180_TCR_TIF1) /\ Test(z.m_tcr, Z180_TCR_TIF1)
    /\ z.m_read_tcr_tmdr[0] = 0


----------------------------------------------------------------------------
(* The enable edge of the timers *)

----------------------------------------------------------------------------
(* The pending flags of the maskable sources *)

\* C32: a check_interrupts call makes the flag of the external line IRQn
\* pending (at its head, or as found after the call) only if the line is
\* asserted, ITEn is set in ITC, IFF1 is set and m_after_EI is clear
C32_IrqPromotion ==
    [][ last'.op = "check" =>
          \A n \in 0 .. 2 :
              LET ite == IF n = 0 THEN Z180_ITC_ITE0
                         ELSE IF n = 1 THEN Z180_ITC_ITE1 ELSE Z180_ITC_ITE2
              IN  (/\ z.m_int_pending[Z180_INT_IRQ0 + n] = 0
                   /\ \/ Z180_INT_IRQ0 + n \in last'.pend
                      \/ z'.m_int_pending[Z180_INT_IRQ0 + n] # 0)
                  => /\ z.m_irq_state[n] # CLEAR_LINE
                     /\ Test(z.m_itc, ite)
                     /\ z.IFF1 = 1
                     /\ z.after_EI = 0
      ]_vars

\* IRQ0 and IRQ1 were asserted and enabled: IRQ0 was serviced and IRQ1 is
\* pending, while the asserted IRQ2 is masked and not pending
C32_Witness ==
    /\ last.op = "check" /\ last.irq = Z180_INT_IRQ0
    /\ Z180_INT_IRQ1 \in last.pend /\ z.m_int_pending[Z180_INT_IRQ1] = 1
    /\ z.m_irq_state[1] # CLEAR_LINE


\* C33: a timer tick leaves PRTn pending if TIEn and TIFn are set once the
\* counters have moved, IFF1 is set and m_after_EI is clear, and leaves the
\* flag as it was otherwise
C33_TimerQueuing ==
    [][ last'.op = "clock" =>
          \A n \in 0 .. 1 :
              LET tie == IF n = 0 THEN Z180_TCR_TIE0 ELSE Z180_TCR_TIE1
                  irq == IF n = 0 THEN Z180_INT_PRT0 ELSE Z180_INT_PRT1
              IN  z'.m_int_pending[irq] =
                      IF /\ Test(z'.m_tcr, tie) /\ Tif(z'.m_tcr, n)
                         /\ z.IFF1 = 1 /\ z.after_EI = 0
                      THEN 1 ELSE z.m_int_pending[irq]
      ]_vars

\* a tick queued both timers; TIE is clear now, TIF0 and TIF1 are up, and
\* the tick that just passed with interrupts enabled left the serviced PRT0
\* clear and PRT1 pending
C33_Witness ==
    /\ last.op = "clock"
    /\ z.m_tcr = 195 /\ z.IFF1 = 1 /\ z.after_EI = 0
    /\ z.m_int_pending[Z180_INT_PRT0] = 0 /\ z.m_int_pending[Z180_INT_PRT1] = 1

\* C37: a check_interrupts call services a maskable source (any source but
\* TRAP and NMI) only when IFF1 is set and m_after_EI is clear at the call
C37_MaskedStayMasked ==
    [][ (last'.op = "check" /\ last'.irq >= Z180_INT_IRQ0) =>
            (z.IFF1 = 1 /\ z.after_EI = 0)
      ]_vars


----------------------------------------------------------------------------
(* The DSTAT write *)

\* C34: a DSTAT write sets DME if its data has DEn set and DWEn clear for
\* some channel n, and leaves DME as it was otherwise
C34_DstatDme ==
    (last.op = "write" /\ RemapPort(last.pre, last.port) = 48) =>
        Test(z.m_dstat, Z180_DSTAT_DME) =
            \/ Test(last.data, Z180_DSTAT_DE1) /\ ~Test(last.data, Z180_DSTAT_DWE1)
            \/ Test(last.data, Z180_DSTAT_DE0) /\ ~Test(last.data, Z180_DSTAT_DWE0)
            \/ Test(last.pre.m_dstat, Z180_DSTAT_DME)

\* DME was up and a write with DE1 and DWE1 both set, and DME clear in the
\* data, left it up
C34_Witness ==
    /\ last.op = "write" /\ last.port = 48 /\ last.data = 165
    /\ Test(last.pre.m_dstat, Z180_DSTAT_DME) /\ Test(z.m_dstat, Z180_DSTAT_DME)
    /\ BitAnd(last.pre.m_iocr, 192) = 0

\* C39: a DSTAT write whose data has DWEn set leaves the stored DEn as it
\* was, for channel 1 and for channel 0
C39_EnableGated ==
    (last.op = "write" /\ RemapPort(last.pre, last.port) = 48) =>
        /\ Test(last.data, Z180_DSTAT_DWE1) =>
              Test(z.m_dstat, Z180_DSTAT_DE1) = Test(last.pre.m_dstat, Z180_DSTAT_DE1)
        /\ Test(last.data, Z180_DSTAT_DWE0) =>
              Test(z.m_dstat, Z180_DSTAT_DE0) = Test(last.pre.m_dstat, Z180_DSTAT_DE0)


----------------------------------------------------------------------------
(* The width of the DMA address registers *)

\* C40: SAR0, DAR0 and MAR1 hold a 20-bit physical address in every state
C40_Addresses20Bit ==
    /\ z.m_dma_sar0 \in 0 .. 1048575
    /\ z.m_dma_dar0 \in 0 .. 1048575
    /\ z.m_dma_mar1 \in 0 .. 1048575


----------------------------------------------------------------------------
(* The read-only bits of the registers *)

\* C36: a z180_writecontrol call leaves the read-only bits of the register
\* it addresses as they were: all of STAT0 but RIE and TIE, all of STAT1 but
\* RIE, CTS1E and TIE, EF of CNTR, TIF1 and TIF0 of TCR, BRK_DET of ASEXT0 and
\* ASEXT1, UFO of ITC; a write to FRC changes nothing at all
C36_ReadOnlyBits ==
    [][ last'.op = "write" =>
          LET p == RemapPort(z, last'.port)
          IN  /\ p = 4  => BitClr(z'.m_asci_stat[0], 9) = BitClr(z.m_asci_stat[0], 9)
              /\ p = 5  => BitClr(z'.m_asci_stat[1], 13) = BitClr(z.m_asci_stat[1], 13)
              /\ p = 10 => BitAnd(z'.m_csio_cntr, 128) = BitAnd(z.m_csio_cntr, 128)
              /\ p = 16 => BitAnd(z'.m_tcr, 192) = BitAnd(z.m_tcr, 192)
              /\ p = 18 => BitAnd(z'.m_asci_ext[0], 2) = BitAnd(z.m_asci_ext[0], 2)
              /\ p = 19 => BitAnd(z'.m_asci_ext[1], 2) = BitAnd(z.m_asci_ext[1], 2)
              /\ p = 24 => z' = z
              /\ p = 52 => BitAnd(z'.m_itc, 64) = BitAnd(z.m_itc, 64)
      ]_vars

\* 0xFF was written to STAT1 and to TCR: STAT1 holds TDRE and the three
\* writable bits, TCR the four writable bits and no flag
C36_Witness ==
    /\ last.op = "write" /\ last.port = 16 /\ last.data = 255
    /\ z.m_tcr = 63 /\ z.m_asci_stat[1] = 15
    /\ BitAnd(z.m_iocr, 192) = 0


----------------------------------------------------------------------------
(* SpecTmdr: the data registers of the stopped timers, written and read    *)
(* back by the program                                                     *)

\* bytes the program writes to a data register
TmdrData == {3, 129}

\* last.bus after an access (kind "w" or "r") of the port with the byte v
\* written or returned: the accesses made so far of a round trip, which is a
\* write of TMDRnL, a write of TMDRnH, a read of TMDRnL and a read of TMDRnH,
\* in this order with nothing in between
TmdrTrip(kind, port, v) ==
    LET k    == Len(last.bus)
        next == IF k = 0 \/ k = 4 THEN 0
                ELSE IF k % 2 = 1 THEN last.bus[1][1] + 1 ELSE last.bus[1][1]
    IN  IF next = port /\ kind = (IF k < 2 THEN "w" ELSE "r")
        THEN Append(last.bus, <<port, v>>)
        ELSE IF kind = "w" /\ port \in {12, 20} THEN << <<port, v>> >>
        ELSE << >>

\* the program writes a byte of the data register of timer n
TmdrWrite ==
    \E n \in 0 .. 1, reg \in {"tmdrl", "tmdrh"}, data \in TmdrData :
        LET port == TimerPorts(n)[reg]
        IN  /\ z' = z180_writecontrol(z, port, data)
            /\ last' = [NoObs EXCEPT !.op = "write", !.port = port, !.data = data,
                                     !.bus = TmdrTrip("w", port, data)]
            /\ UNCHANGED <<pc, m_icount, hist>>

\* the program reads a byte of the data register of timer n
TmdrRead ==
    \E n \in 0 .. 1, reg \in {"tmdrl", "tmdrh"} :
        LET port == TimerPorts(n)[reg]
            r    == z180_readcontrol(z, port, [byte |-> 0, frc |-> 0])
        IN  /\ z' = r.st
            /\ last' = [NoObs EXCEPT !.op = "read", !.port = port, !.ret = r.data,
                                     !.bus = TmdrTrip("r", port, r.data)]
            /\ UNCHANGED <<pc, m_icount, hist>>

SpecTmdr == IoInit /\ [][TmdrWrite \/ TmdrRead]_vars

\* C38: for either timer, stopped, once l was written to TMDRnL and then h
\* to TMDRnH the down-counter is h * 256 + l, and the reads of TMDRnL and
\* TMDRnH that follow return l and h
C38_DataRoundTrip ==
    LET b == last.bus
    IN  /\ Len(b) = 2 =>
              z.m_tmdr_value[IF b[1][1] = 12 THEN 0 ELSE 1] = b[2][2] * 256 + b[1][2]
        /\ Len(b) = 4 => (b[3][2] = b[1][2] /\ b[4][2] = b[2][2])


----------------------------------------------------------------------------
(* SpecAccount: execute_run and execute_burn with timer 0 counting, so     *)
(* that the T-states clocked into the timers can be read off the device    *)

\* z180_device::execute_burn (ic: m_icount)
RECURSIVE execute_burn(_, _, _)
execute_burn(s, ic, cycles) ==
    IF cycles > 0
    THEN LET c == 3 + memory_wait_states(s)
             t == handle_io_timers(s, c)
         IN  execute_burn([t EXCEPT !.R = (t.R + 1) % 256], ic - c, cycles - c)
    ELSE [st |-> s, ic |-> ic]

\* a guest with timer 0 enabled by a TCR write (its reload value is the
\* 0xFFFF of reset, its interrupt is off): either its program arms channel 0,
\* or channel 1 was armed before the program started
AccountInit ==
    /\ \E prog \in {q \in RunPrograms : Len(q) < 5}, mmod \in {0, Z180_DMODE_MMOD} :
            /\ Len(prog) = 2 => mmod = 0
            /\ z = [Program(ResetState, DmaSetup(0, mmod, MaxCount, 240)
                                        \o (IF Len(prog) = 2 THEN << <<48, 144>> >> ELSE << >>)
                                        \o << <<16, 1>> >>)
                     EXCEPT !.prog = prog, !.SP = MemSize]
    /\ pc = "idle"
    /\ m_icount = 0
    /\ last = NoObs
    /\ hist = NoHist

\* the scheduler burns cycles between two calls of execute_run
RunBurn ==
    \E cycles \in {1, 7} :
        \E r \in {execute_burn(z, m_icount, cycles)} :
            /\ pc = "idle"
            /\ z' = r.st
            /\ m_icount' = r.ic
            /\ last' = [NoObs EXCEPT !.op = "burn", !.cycles = m_icount - r.ic]
            /\ hist' = NoHist
            /\ UNCHANGED pc

\* execute_run and execute_burn are entered while timer 0 has ticked once
\* at most
SpecAccount ==
    AccountInit /\ [][\/ RunSetInput
                      \/ DmaSetDreq1 /\ pc = "idle" /\ Test(z.m_dstat, Z180_DSTAT_DE1)
                      \/ RunDriver /\ (pc = "idle" => z.m_tmdr_value[0] \in {0, 65535})
                      \/ RunBurn /\ z.m_tmdr_value[0] \in {0, 65535}]_vars

\* C35: in every step of execute_run after its entry, and in every
\* execute_burn, the T-states clocked into the timers (20 for each tick timer
\* 0 has counted, and what the accumulator holds) are the T-states taken from
\* m_icount
C35_CycleAccounting ==
    [][ LET Clocks(s) ==
                20 * (IF s.m_tmdr_value[0] = 0 THEN 0 ELSE 65536 - s.m_tmdr_value[0])
                + s.m_timer_cnt
        IN  ~(pc = "idle" /\ pc' = "entry") =>
                Clocks(z') - Clocks(z) = m_icount - m_icount'
      ]_vars

\* a burn of 7 cycles took 12 T-states, two NOPs with 3 wait states each,
\* and a tick fell into it
C35_Witness ==
    /\ last.op = "burn" /\ last.cycles = 12
    /\ z.m_tmdr_value[0] = 65534 /\ z.m_timer_cnt < 12

=============================================================================
